---- MODULE Spec2Model ----
(***************************************************************************)
(* A model of the islatu X-ray reflectivity reduction core: the Image      *)
(* pixel operators, the Scan2D and Profile operations built on them, the   *)
(* rebinning kernel and the i07reduce runner.                              *)
(*                                                                         *)
(* Numbers.  The program computes in floating point; the model computes    *)
(* in exact rationals [n, d] in lowest terms.  Every uncertainty (array_e, *)
(* bkg_e, intensity_e) is carried as its SQUARE, so that the program's     *)
(* sqrt(a^2 + b^2) is the exact sum a^2 + b^2 and sqrt(x)/N is x/N^2; the  *)
(* program's uncertainties are never negative, so nothing is lost.  Axis   *)
(* values are fixed point: theta in millidegrees, q in 1/1000 inverse      *)
(* Angstrom, energy in 1/10 keV, lengths in micrometres.                   *)
(***************************************************************************)
EXTENDS Integers, Sequences, FiniteSets, TLC

------------------------------------------------------------------------------
(* Exact rational arithmetic.                                              *)

Abs(x) == IF x < 0 THEN -x ELSE x

RECURSIVE GCD(_, _)
GCD(a, b) == IF b = 0 THEN a ELSE GCD(b, a % b)

\* The rational n/d in lowest terms with a positive denominator.
Rat(n, d) ==
    LET g == GCD(Abs(n), Abs(d))
        s == IF d < 0 THEN -1 ELSE 1
    IN  [n |-> s * (n \div g), d |-> s * (d \div g)]

RInt(k) == [n |-> k, d |-> 1]

RAdd(a, b) ==
    LET g == GCD(a.d, b.d)
    IN  Rat(a.n * (b.d \div g) + b.n * (a.d \div g), a.d * (b.d \div g))

RNeg(a) == [n |-> -a.n, d |-> a.d]

RSub(a, b) == RAdd(a, RNeg(b))

RMul(a, b) ==
    LET g1 == GCD(Abs(a.n), b.d)
        g2 == GCD(Abs(b.n), a.d)
    IN  IF a.n = 0 \/ b.n = 0 THEN RInt(0)
        ELSE [n |-> (a.n \div g1) * (b.n \div g2),
              d |-> (a.d \div g2) * (b.d \div g1)]

\* a / b for b # 0.
RDiv(a, b) == RMul(a, Rat(b.d, b.n))

RLt(a, b) ==
    LET g == GCD(a.d, b.d) IN a.n * (b.d \div g) < b.n * (a.d \div g)

RLe(a, b) ==
    LET g == GCD(a.d, b.d) IN a.n * (b.d \div g) <= b.n * (a.d \div g)

RECURSIVE RSum(_)
RSum(s) == IF s = <<>> THEN RInt(0) ELSE RAdd(Head(s), RSum(Tail(s)))

RECURSIVE ISum(_)
ISum(s) == IF s = <<>> THEN 0 ELSE Head(s) + ISum(Tail(s))

Min(a, b) == IF a < b THEN a ELSE b

Max(a, b) == IF a > b THEN a ELSE b

------------------------------------------------------------------------------
(* Two-dimensional arrays: nr rows (first index, "x"), nc columns (second  *)
(* index, "y"), cells flat in row-major order.                             *)

Mat(nr, nc, cells) == [nr |-> nr, nc |-> nc, v |-> cells]

shape(m) == <<m.nr, m.nc>>

At(m, i, j) == m.v[(i - 1) * m.nc + j]

\* array.T
Transpose(m) ==
    Mat(m.nc, m.nr,
        [k \in 1..(m.nr * m.nc) |->
            At(m, ((k - 1) % m.nr) + 1, ((k - 1) \div m.nr) + 1)])

\* array[x0:x1, y0:y1] for non-negative bounds: numpy clamps a slice to the
\* array and an empty slice keeps the other dimension.
Slice(m, x0, x1, y0, y1) ==
    LET xa == Min(x0, m.nr)
        xb == Max(Min(x1, m.nr), xa)
        ya == Min(y0, m.nc)
        yb == Max(Min(y1, m.nc), ya)
        r  == xb - xa
        c  == yb - ya
    IN  Mat(r, c,
            [k \in 1..(r * c) |->
                At(m, xa + ((k - 1) \div c) + 1, ya + ((k - 1) % c) + 1)])

------------------------------------------------------------------------------
(* Region.                                                                 *)

Region(x_start, x_end, y_start, y_end) ==
    [x_start |-> x_start, x_end |-> x_end, y_start |-> y_start, y_end |-> y_end]

x_length(region) == region.x_start - region.x_end

y_length(region) == region.y_start - region.y_end

\* Read by roi_subtraction; the Region class of region.py does not define it.
num_pixels(region) ==
    (region.x_end - region.x_start) * (region.y_end - region.y_start)

crop_to_region(array, region) ==
    Slice(array, region.x_start, region.x_end, region.y_start, region.y_end)

------------------------------------------------------------------------------
(* Image.  array_e2 holds array_e squared, bkg_e2 holds bkg_e squared.     *)

\* initial_std_devs: sqrt(array_original), and 1 where array_original is 0.
initial_std_devs(array_original) ==
    Mat(array_original.nr, array_original.nc,
        [k \in 1..Len(array_original.v) |->
            IF array_original.v[k] = 0 THEN RInt(1)
            ELSE RInt(array_original.v[k])])

\* Image.__init__(array, transpose)
Image(array, transpose) ==
    LET a == IF transpose THEN Transpose(array) ELSE array
    IN  [array          |-> Mat(a.nr, a.nc, [k \in 1..Len(a.v) |-> RInt(a.v[k])]),
         array_original |-> a,
         array_e2       |-> initial_std_devs(a),
         bkg            |-> RInt(0),
         bkg_e2         |-> RInt(0)]

ImageCropArrayOnly(image, region) ==
    [image EXCEPT !.array = crop_to_region(image.array, region)]

ImageCropWithOriginal(image, region) ==
    [image EXCEPT !.array = crop_to_region(image.array, region),
                  !.array_e2 = crop_to_region(image.array_e2, region),
                  !.array_original = crop_to_region(image.array_original, region)]

\* Image.crop(crop_to_region, region=region)
ImageCrop(image, region) ==
    [image EXCEPT !.array = crop_to_region(image.array, region),
                  !.array_e2 = crop_to_region(image.array_e2, region)]

\* The loop of roi_subtraction: the counts summed over the regions.
RECURSIVE sum_of_bkg_areas(_, _)
sum_of_bkg_areas(image, list_of_regions) ==
    IF list_of_regions = <<>> THEN 0
    ELSE ISum(crop_to_region(image.array_original, Head(list_of_regions)).v)
         + sum_of_bkg_areas(image, Tail(list_of_regions))

RECURSIVE total_num_pixels(_)
total_num_pixels(list_of_regions) ==
    IF list_of_regions = <<>> THEN 0
    ELSE num_pixels(Head(list_of_regions))
         + total_num_pixels(Tail(list_of_regions))

RECURSIVE sum_of_current_areas(_, _)
sum_of_current_areas(image, list_of_regions) ==
    IF list_of_regions = <<>> THEN RInt(0)
    ELSE RAdd(RSum(crop_to_region(image.array, Head(list_of_regions)).v),
              sum_of_current_areas(image, Tail(list_of_regions)))

roi_subtraction_of_array(image, list_of_regions) ==
    LET S    == sum_of_current_areas(image, list_of_regions)
        N    == total_num_pixels(list_of_regions)
        err2 == IF S.n = 0 THEN RInt(1) ELSE S
    IN  [bkg |-> RDiv(S, RInt(N)), bkg_e2 |-> RDiv(err2, RInt(N * N))]

\* roi_subtraction(image, list_of_regions) -> BkgSubInfo(bkg, bkg_e): the
\* error of the summed count is sqrt(S), or 1 when that is 0.
roi_subtraction(image, list_of_regions) ==
    LET S   == sum_of_bkg_areas(image, list_of_regions)
        N   == total_num_pixels(list_of_regions)
        err2 == IF S = 0 THEN 1 ELSE S
    IN  [bkg |-> Rat(S, N), bkg_e2 |-> Rat(err2, N * N)]

background_subtraction_accumulating(image, bkg_sub_info) ==
    [image EXCEPT
        !.bkg = RAdd(image.bkg, bkg_sub_info.bkg),
        !.bkg_e2 = bkg_sub_info.bkg_e2,
        !.array = Mat(image.array.nr, image.array.nc,
                      [k \in 1..Len(image.array.v) |->
                          RSub(image.array.v[k], bkg_sub_info.bkg)]),
        !.array_e2 = Mat(image.array_e2.nr, image.array_e2.nc,
                      [k \in 1..Len(image.array_e2.v) |->
                          RAdd(bkg_sub_info.bkg_e2, image.array_e2.v[k])])]

\* Image.background_subtraction, after the call of the subtraction function
\* that returned bkg_sub_info.
background_subtraction(image, bkg_sub_info) ==
    [image EXCEPT
        !.bkg = bkg_sub_info.bkg,
        !.bkg_e2 = bkg_sub_info.bkg_e2,
        !.array = Mat(image.array.nr, image.array.nc,
                      [k \in 1..Len(image.array.v) |->
                          RSub(image.array.v[k], bkg_sub_info.bkg)]),
        !.array_e2 = Mat(image.array_e2.nr, image.array_e2.nc,
                      [k \in 1..Len(image.array_e2.v) |->
                          RAdd(bkg_sub_info.bkg_e2, image.array_e2.v[k])])]

\* Image.sum() -> (sum of array, sum of array_e squared)
ImageSum(image) ==
    [intensity |-> RSum(image.array.v), intensity_e2 |-> RSum(image.array_e2.v)]

------------------------------------------------------------------------------
(* Data and MeasurementBase.  An attribute that may be None is a sequence  *)
(* of length at most one.                                                  *)

None == <<>>

Some(x) == <<x>>

\* floor of a non-negative rational
Floor(a) == a.n \div a.d

\* sin(radians(theta)) in units of 1e-6 for theta in millidegrees:
\* x - x^3/6 with x in microradians.
SinMicro(theta_mdeg) ==
    LET x_urad == (theta_mdeg * 17453) \div 1000
        x_mrad == x_urad \div 1000
    IN  x_urad - ((x_mrad * x_mrad * x_mrad) \div 6) \div 1000

\* Data._theta_to_q for one value: sin(radians(theta)) / (planck * c) *
\* energy * 4 pi, planck * c being 12.398 keV Angstrom.
theta_to_q_value(theta, energy) ==
    RInt((((SinMicro(Floor(theta)) * energy) \div 1000) * 10135) \div 100000)

theta_to_q(theta, energy) ==
    [i \in 1..Len(theta) |-> theta_to_q_value(theta[i], energy)]

\* Data._q_to_theta for one value: planck * c * arcsin(q / (energy * 4 pi)),
\* then * 180 / pi; arcsin(x) is x + x^3/6 with x in units of 1e-7.  The
\* large products are scaled down first, to stay inside 32 bits.
q_to_theta_value(q, energy) ==
    LET x7     == (Floor(q) * 100000) \div ((energy * 12566) \div 1000)
        asin7  == x7 + (((x7 \div 1000) * (x7 \div 1000) * (x7 \div 1000)) \div 6)
                         \div 100000
        rad7   == IF asin7 < 170000 THEN (asin7 * 12398) \div 1000
                  ELSE ((asin7 \div 10) * 12398) \div 100
    IN  IF rad7 < 3700000 THEN RInt(((rad7 \div 10) * 5730) \div 100000)
        ELSE RInt(((rad7 \div 100) * 5730) \div 10000)

q_to_theta(q_values, energy) ==
    [i \in 1..Len(q_values) |-> q_to_theta_value(q_values[i], energy)]

\* Data.__init__(intensity, intensity_e, energy, theta, q): theta and q are
\* optional, at least one is given.
Data(intensity, intensity_e2, energy, theta, q) ==
    [intensity |-> intensity, intensity_e2 |-> intensity_e2, energy |-> energy,
     theta_ |-> theta, q_ |-> q]

\* Data.__init__ raises ValueError when it is given neither theta nor q.
Data_raises(theta, q) == theta = None /\ q = None

\* The setters of Data.q and Data.theta
Data_set_q(data, value) == [data EXCEPT !.q_ = Some(value)]

Data_set_theta(data, value) == [data EXCEPT !.theta_ = Some(value)]

\* The largest member of a sequence of rationals, as np.amax gives it.
np_amax(s) ==
    LET RECURSIVE Largest(_)
        Largest(k) ==
            IF k = 1 THEN s[1]
            ELSE LET m == Largest(k - 1) IN IF RLt(m, s[k]) THEN s[k] ELSE m
    IN  Largest(Len(s))

\* a / b of numpy floats: dividing by zero raises nothing and gives inf,
\* -inf or nan, written here 1/0, -1/0 and 0/0.
np_true_divide(a, b) ==
    IF b.n # 0 THEN RDiv(a, b)
    ELSE [n |-> IF a.n > 0 THEN 1 ELSE IF a.n < 0 THEN -1 ELSE 0, d |-> 0]

\* The property Data.R: intensity / np.amax(intensity)
DataR(data) ==
    [i \in 1..Len(data.intensity) |->
        np_true_divide(data.intensity[i], np_amax(data.intensity))]

\* The property Data.R_e, squared: intensity_e / np.amax(intensity)
DataR_e2(data) ==
    LET m == np_amax(data.intensity)
    IN  [i \in 1..Len(data.intensity_e2) |->
            np_true_divide(data.intensity_e2[i], RMul(m, m))]

\* The property Data.q
DataQ(data) ==
    IF data.q_ = None /\ data.theta_ # None
    THEN theta_to_q(data.theta_[1], data.energy)
    ELSE data.q_[1]

\* The property Data.theta
DataTheta(data) ==
    IF data.theta_ = None /\ data.q_ # None
    THEN q_to_theta(data.q_[1], data.energy)
    ELSE data.theta_[1]

\* The attribute q_vectors that stitching.concatenate reads from a scan;
\* data.py names the same values q.
q_vectors(data) == DataQ(data)

\* The 0-based position an index of a Python sequence of length n names.
Position(idx, n) == IF idx < 0 THEN idx + n ELSE idx

\* np.delete raises IndexError for an index outside -len(arr)..len(arr)-1,
\* before it returns anything.
np_delete_raises(arr, indices) ==
    \E k \in 1..Len(indices) :
        indices[k] >= Len(arr) \/ indices[k] < -Len(arr)

np_delete_first_only(arr, indices) ==
    IF indices = <<>> THEN arr
    ELSE LET p == Position(indices[1], Len(arr))
         IN  [l \in 1..(Len(arr) - 1) |-> IF l <= p THEN arr[l] ELSE arr[l + 1]]

\* np.delete(arr, indices): arr without the positions the indices name.
np_delete(arr, indices) ==
    LET gone == {Position(indices[k], Len(arr)) : k \in 1..Len(indices)}
        keep == {p \in 0..(Len(arr) - 1) : p \notin gone}
        RECURSIVE Build(_)
        Build(p) == IF p >= Len(arr) THEN <<>>
                    ELSE (IF p \in keep THEN <<arr[p + 1]>> ELSE <<>>) \o Build(p + 1)
    IN  Build(0)

\* MeasurementBase.remove_data_points(indices)
DataRemovePoints(data, indices) ==
    [data EXCEPT
        !.q_ = IF data.q_ # None THEN Some(np_delete(data.q_[1], indices))
               ELSE None,
        !.theta_ = IF data.theta_ # None
                   THEN Some(np_delete(data.theta_[1], indices)) ELSE None,
        !.intensity = np_delete(data.intensity, indices),
        !.intensity_e2 = np_delete(data.intensity_e2, indices)]

------------------------------------------------------------------------------
(* Correction kernels.                                                     *)

\* norm.cdf(z) - norm.cdf(-z) for z in units of 1e-3, tabulated to the next
\* quarter above (0.25 at z = 0.319, 0.5 at 0.674, 0.75 at 1.150).
PhiDiff(z_milli) ==
    IF z_milli <= 319 THEN Rat(1, 4)
    ELSE IF z_milli <= 674 THEN Rat(1, 2)
    ELSE IF z_milli <= 1150 THEN Rat(3, 4)
    ELSE RInt(1)

\* corrections.footprint_correction(beam_width, sample_size, theta) for one
\* theta: theta = 0 is replaced by 1e-3 degrees; beam_sd = beam_width / 2 /
\* sqrt(2 ln 2); the fraction of a Gaussian of sd beam_sd / sin(theta) inside
\* +- sample_size / 2.
footprint_correction_value(beam_width, sample_size, theta) ==
    LET t     == IF Floor(theta) = 0 THEN 1 ELSE Floor(theta)
        ratio == (sample_size * SinMicro(t)) \div beam_width
        z     == ((ratio \div 100) * 11774) \div 100000
    IN  PhiDiff(z)

footprint_correction(beam_width, sample_size, theta) ==
    [i \in 1..Len(theta) |->
        footprint_correction_value(beam_width, sample_size, theta[i])]

\* splev(x, itp) for one x: itp is a sequence of knots [q, value] with
\* increasing q, evaluated by interpolation between the neighbouring knots.
splev_value(x, itp) ==
    LET k == CHOOSE k \in 1..(Len(itp) - 1) :
                 /\ (RLe(RInt(itp[k].q), x) \/ k = 1)
                 /\ (RLt(x, RInt(itp[k + 1].q)) \/ k = Len(itp) - 1)
        slope == Rat(itp[k + 1].value - itp[k].value, itp[k + 1].q - itp[k].q)
    IN  RAdd(RInt(itp[k].value), RMul(slope, RSub(x, RInt(itp[k].q))))

splev(x, itp) == [i \in 1..Len(x) |-> splev_value(x[i], itp)]

\* a /= f elementwise
DivEach(a, f) == [i \in 1..Len(a) |-> RDiv(a[i], f[i])]

\* a_e /= f elementwise, on the squares
DivEachSquared(a, f) == [i \in 1..Len(a) |-> RDiv(a[i], RMul(f[i], f[i]))]

Constant(n, x) == [i \in 1..n |-> x]

------------------------------------------------------------------------------
(* image._average_out_hot of the earlier Image class, on an integer array. *)

\* The rows (or columns) of array[a-1:a+2] for the pixel at position p of an
\* axis of n: at the first position a is moved to the second, so the slice
\* is the first three; everywhere else it is p-1 .. p+1, cut at the end.
local_span(p, n) ==
    IF p = 1 THEN 1..Min(3, n) ELSE (p - 1)..Min(p + 1, n)

\* The positions p-1 .. p+1 that lie on the axis.
clamped_span(p, n) == Max(p - 1, 1)..Min(p + 1, n)

\* The sum of the cells of the rows and columns given, one cell left out.
SumAround(array, rows, cols, i, j) ==
    LET cells == {k \in 1..Len(array.v) :
                     /\ ((k - 1) \div array.nc) + 1 \in rows
                     /\ ((k - 1) % array.nc) + 1 \in cols
                     /\ k # (i - 1) * array.nc + j}
        RECURSIVE Total(_)
        Total(ks) == IF ks = {} THEN 0
                     ELSE LET k == CHOOSE x \in ks : TRUE
                          IN  array.v[k] + Total(ks \ {k})
    IN  Total(cells)

\* A repair over the neighbours that exist, tested on their mean.
repair_pixel_clamped(array, i, j) ==
    LET rows  == clamped_span(i, array.nr)
        cols  == clamped_span(j, array.nc)
        size  == Cardinality(rows) * Cardinality(cols)
        total == SumAround(array, rows, cols, i, j)
    IN  IF total * 100 < At(array, i, j) * (size - 1)
        THEN Mat(array.nr, array.nc,
                 [array.v EXCEPT ![(i - 1) * array.nc + j] = total \div (size - 1)])
        ELSE array

\* One pass of the loop, for the pixel (i, j): local is the slice with the
\* pixel set to 0; the test is on local.mean(), the new value is
\* local.sum() / (local.size - 1), cut to an integer by the array.
repair_pixel(array, i, j) ==
    LET rows  == local_span(i, array.nr)
        cols  == local_span(j, array.nc)
        size  == Cardinality(rows) * Cardinality(cols)
        total == SumAround(array, rows, cols, i, j)
    IN  IF total * 100 < At(array, i, j) * size
        THEN Mat(array.nr, array.nc,
                 [array.v EXCEPT ![(i - 1) * array.nc + j] = total \div (size - 1)])
        ELSE array

\* _average_out_hot(array, hot_pixel_max): the pixels above hot_pixel_max,
\* found before the loop, are visited in row-major order and repaired in
\* place.
average_out_hot(array, hot_pixel_max) ==
    LET RECURSIVE Visit(_, _)
        Visit(current, k) ==
            IF k > Len(array.v) THEN current
            ELSE IF array.v[k] > hot_pixel_max
            THEN Visit(repair_pixel(current, ((k - 1) \div array.nc) + 1,
                                    ((k - 1) % array.nc) + 1), k + 1)
            ELSE Visit(current, k + 1)
    IN  Visit(array, 1)

------------------------------------------------------------------------------
(* io._try_to_find_files.  A path is the sequence of its components.       *)

\* The concatenation of a sequence of sequences.
Flatten(seqs) ==
    LET RECURSIVE Upto(_)
        Upto(k) == IF k = 0 THEN <<>> ELSE Upto(k - 1) \o seqs[k]
    IN  Upto(Len(seqs))

\* split_srch_path[:-(j+1)] for j = 0, 1, ...: the ancestors of a directory,
\* nearest first, down to the empty path.
extra_paths(search_path) ==
    [j \in 1..Len(search_path) |->
        SubSeq(search_path, 1, Len(search_path) - j)]

\* cwd, the additional search paths, then the ancestors of each in turn.
local_start_directories(cwd, additional_search_paths) ==
    LET start_dirs == <<cwd>> \o additional_search_paths
    IN  start_dirs
        \o Flatten([i \in 1..Len(start_dirs) |-> extra_paths(start_dirs[i])])

\* Every tail of the recorded path under every start directory, the longest
\* tail first.
candidate_paths(filename, start_directories) ==
    Flatten([j \in 1..Len(filename) |->
        [d \in 1..Len(start_directories) |->
            start_directories[d] \o SubSeq(filename, j, Len(filename))]])

\* A search that takes the last candidate that is a file.
try_to_find_file_last(filename, cwd, additional_search_paths, isfile) ==
    LET candidates == candidate_paths(filename,
                          local_start_directories(cwd, additional_search_paths))
        found      == {c \in 1..Len(candidates) : candidates[c] \in isfile}
    IN  IF filename \in isfile THEN [raised |-> FALSE, path |-> filename]
        ELSE IF found = {} THEN [raised |-> TRUE]
        ELSE [raised |-> FALSE,
              path |-> candidates[CHOOSE c \in found :
                                     \A other \in found : other <= c]]

\* _try_to_find_files for one file name: the recorded path if it is a file,
\* else the first candidate that is a file, else FileNotFoundError.
try_to_find_file(filename, cwd, additional_search_paths, isfile) ==
    LET candidates == candidate_paths(filename,
                          local_start_directories(cwd, additional_search_paths))
        found      == {c \in 1..Len(candidates) : candidates[c] \in isfile}
    IN  IF filename \in isfile THEN [raised |-> FALSE, path |-> filename]
        ELSE IF found = {} THEN [raised |-> TRUE]
        ELSE [raised |-> FALSE,
              path |-> candidates[CHOOSE c \in found :
                                     \A other \in found : c <= other]]

------------------------------------------------------------------------------
(* Scan2D: a record of data, metadata and images.                          *)

\* A constructor that keeps only the images that have a data point.
Scan2D_dropping_unpaired_images(data, metadata, images) ==
    [data |-> data, metadata |-> metadata,
     images |-> SubSeq(images, 1, Min(Len(images), Len(data.intensity)))]

Scan2D(data, metadata, images) ==
    [data |-> data, metadata |-> metadata, images |-> images]

Scan2D_crop_images_only(scan, region) ==
    [scan EXCEPT !.images =
        [i \in 1..Len(scan.images) |->
            IF i <= Len(DataQ(scan.data)) THEN ImageCrop(scan.images[i], region)
            ELSE scan.images[i]]]

\* Scan2D.crop(crop_to_region, {'region': region}): every image of
\* range(len(self.q)) is cropped and summed into fresh intensity arrays of
\* length len(self.intensity).
Scan2D_crop(scan, region) ==
    LET n      == Len(DataQ(scan.data))
        images == [i \in 1..Len(scan.images) |->
                     IF i <= n THEN ImageCrop(scan.images[i], region)
                     ELSE scan.images[i]]
    IN  [scan EXCEPT
            !.images = images,
            !.data.intensity = [i \in 1..Len(scan.data.intensity) |->
                IF i <= n THEN ImageSum(images[i]).intensity ELSE RInt(0)],
            !.data.intensity_e2 = [i \in 1..Len(scan.data.intensity) |->
                IF i <= n THEN ImageSum(images[i]).intensity_e2 ELSE RInt(0)]]

\* Scan2D.bkg_sub(roi_subtraction, {'list_of_regions': list_of_regions})
Scan2D_bkg_sub(scan, list_of_regions) ==
    LET n      == Len(DataQ(scan.data))
        images == [i \in 1..Len(scan.images) |->
                     IF i <= n
                     THEN background_subtraction(scan.images[i],
                              roi_subtraction(scan.images[i], list_of_regions))
                     ELSE scan.images[i]]
    IN  [scan EXCEPT
            !.images = images,
            !.data.intensity = [i \in 1..Len(scan.data.intensity) |->
                IF i <= n THEN ImageSum(images[i]).intensity ELSE RInt(0)],
            !.data.intensity_e2 = [i \in 1..Len(scan.data.intensity) |->
                IF i <= n THEN ImageSum(images[i]).intensity_e2 ELSE RInt(0)]]

\* Scan2D.footprint_correction(beam_width, sample_size)
Scan2D_footprint_correction(scan, beam_width, sample_size) ==
    LET frac_of_beam_sampled ==
            footprint_correction(beam_width, sample_size, DataTheta(scan.data))
    IN  [scan EXCEPT
            !.data.intensity = DivEach(scan.data.intensity, frac_of_beam_sampled),
            !.data.intensity_e2 =
                DivEachSquared(scan.data.intensity_e2, frac_of_beam_sampled)]

\* Scan2D.transmission_normalisation()
Scan2D_transmission_normalisation(scan) ==
    LET t == Constant(Len(scan.data.intensity), scan.metadata.transmission)
    IN  [scan EXCEPT
            !.data.intensity = DivEach(scan.data.intensity, t),
            !.data.intensity_e2 = DivEachSquared(scan.data.intensity_e2, t)]

\* Scan2D.qdcd_normalisation(itp)
Scan2D_qdcd_normalisation(scan, itp) ==
    [scan EXCEPT
        !.data.intensity = DivEach(scan.data.intensity, splev(DataQ(scan.data), itp)),
        !.data.intensity_e2 =
            DivEachSquared(scan.data.intensity_e2, splev(DataQ(scan.data), itp))]

\* sorted(indices, reverse=True)
RECURSIVE SortedReverse(_)
SortedReverse(indices) ==
    IF indices = <<>> THEN <<>>
    ELSE LET k == CHOOSE k \in 1..Len(indices) :
                     \A l \in 1..Len(indices) : indices[l] <= indices[k]
         IN  <<indices[k]>> \o
             SortedReverse([l \in 1..(Len(indices) - 1) |->
                               IF l < k THEN indices[l] ELSE indices[l + 1]])

\* del images[idx] raises IndexError for idx outside -len(images)..len(images)-1
DelRaises(images, idx) == idx >= Len(images) \/ idx < -Len(images)

\* for idx in indices: del images[idx]; the loop ends at a del that raises,
\* with the images deleted so far gone.
RECURSIVE DelEach(_, _)
DelEach(images, indices) ==
    IF indices = <<>> \/ DelRaises(images, Head(indices)) THEN images
    ELSE LET p == Position(Head(indices), Len(images))
         IN  DelEach([l \in 1..(Len(images) - 1) |->
                         IF l <= p THEN images[l] ELSE images[l + 1]],
                     Tail(indices))

\* Whether a del of the loop raises.
RECURSIVE DelEachRaises(_, _)
DelEachRaises(images, indices) ==
    IF indices = <<>> THEN FALSE
    ELSE IF DelRaises(images, Head(indices)) THEN TRUE
    ELSE DelEachRaises(DelEach(images, <<Head(indices)>>), Tail(indices))

Scan2D_remove_data_points_keeping_images(scan, indices) ==
    [scan EXCEPT !.data = DataRemovePoints(scan.data, indices)]

\* Scan2D.remove_data_points(indices)
Scan2D_remove_data_points(scan, indices) ==
    [scan EXCEPT !.data = DataRemovePoints(scan.data, indices),
                 !.images = DelEach(scan.images, SortedReverse(indices))]

illegal_q_indices_open(q, q_min, q_max) ==
    LET RECURSIVE Where(_)
        Where(p) == IF p >= Len(q) THEN <<>>
                    ELSE (IF RLe(q[p + 1], q_min) \/ RLe(q_max, q[p + 1])
                          THEN <<p>> ELSE <<>>) \o Where(p + 1)
    IN  Where(0)

\* np.where((self.q < q_min) | (self.q > q_max))[0]: the 0-based indices,
\* ascending.
illegal_q_indices(q, q_min, q_max) ==
    LET RECURSIVE Where(_)
        Where(p) == IF p >= Len(q) THEN <<>>
                    ELSE (IF RLt(q[p + 1], q_min) \/ RLt(q_max, q[p + 1])
                          THEN <<p>> ELSE <<>>) \o Where(p + 1)
    IN  Where(0)

\* Scan2D.subsample_q(q_min, q_max)
Scan2D_subsample_q(scan, q_min, q_max) ==
    Scan2D_remove_data_points(scan,
        illegal_q_indices(DataQ(scan.data), q_min, q_max))

------------------------------------------------------------------------------
(* stitching.                                                              *)

concatenate_sorting_scans(scan_list) ==
    LET RECURSIVE Cat(_)
        Cat(l) ==
            IF l = <<>> THEN [q |-> <<>>, intensity |-> <<>>, intensity_e2 |-> <<>>]
            ELSE LET rest == Cat(Tail(l))
                     head == [q |-> q_vectors(Head(l).data),
                              intensity |-> Head(l).data.intensity,
                              intensity_e2 |-> Head(l).data.intensity_e2]
                     first == rest.q = <<>> \/ head.q = <<>>
                                \/ RLe(head.q[1], rest.q[1])
                     a == IF first THEN head ELSE rest
                     b == IF first THEN rest ELSE head
                 IN  [q |-> a.q \o b.q,
                      intensity |-> a.intensity \o b.intensity,
                      intensity_e2 |-> a.intensity_e2 \o b.intensity_e2]
    IN  Cat(scan_list)

\* stitching.concatenate(scan_list) -> (q_vectors, intensity, intensity_e)
RECURSIVE concatenate(_)
concatenate(scan_list) ==
    IF scan_list = <<>>
    THEN [q |-> <<>>, intensity |-> <<>>, intensity_e2 |-> <<>>]
    ELSE LET rest == concatenate(Tail(scan_list))
         IN  [q |-> q_vectors(Head(scan_list).data) \o rest.q,
              intensity |-> Head(scan_list).data.intensity \o rest.intensity,
              intensity_e2 |->
                  Head(scan_list).data.intensity_e2 \o rest.intensity_e2]

\* np.linspace(start, stop, num) for num >= 2
linspace(start, stop, num) ==
    [k \in 1..num |->
        RAdd(start, RMul(RSub(stop, start), Rat(k - 1, num - 1)))]

RECURSIVE RMinOf(_)
RMinOf(s) == IF Len(s) = 1 THEN s[1]
             ELSE LET m == RMinOf(Tail(s)) IN IF RLt(s[1], m) THEN s[1] ELSE m

RECURSIVE RMaxOf(_)
RMaxOf(s) == IF Len(s) = 1 THEN s[1]
             ELSE LET m == RMaxOf(Tail(s)) IN IF RLt(m, s[1]) THEN s[1] ELSE m

\* epsilon = 0.001 of stitching.rebin, in units of 1/1000 inverse Angstrom
epsilon == 1

\* The grid rebin generates when new_q is None and rebin_as is "linear".
default_new_q(q, number_of_q_vectors) ==
    linspace(RMinOf(q), RAdd(RMaxOf(q), RInt(epsilon)), number_of_q_vectors)

rebin_binned_closed_bins(q, R, R_e2, new_q) ==
    [i \in 1..Len(new_q) |->
        LET indices == IF i = Len(new_q) THEN {}
                       ELSE {j \in 1..Len(q) :
                               RLe(new_q[i], q[j]) /\ RLe(q[j], new_q[i + 1])}
            RECURSIVE Weighted(_, _)
            Weighted(x, j) ==
                IF j > Len(q) THEN RInt(0)
                ELSE RAdd(IF j \in indices THEN RDiv(x[j], R_e2[j]) ELSE RInt(0),
                          Weighted(x, j + 1))
            sum_of_inverse_var == Weighted(Constant(Len(q), RInt(1)), 1)
        IN  IF indices = {}
            THEN [q |-> RInt(0), R |-> RInt(0), R_e2 |-> RInt(0)]
            ELSE [q |-> RDiv(Weighted(q, 1), sum_of_inverse_var),
                  R |-> RDiv(Weighted(R, 1), sum_of_inverse_var),
                  R_e2 |-> RDiv(RInt(1), sum_of_inverse_var)]]

\* The largest r with r * r <= v, for 0 <= v
ISqrt(v) ==
    LET RECURSIVE Search(_, _)
        Search(lo, hi) ==
            IF lo >= hi THEN lo
            ELSE LET mid == (lo + hi + 1) \div 2
                 IN  IF mid * mid <= v THEN Search(mid, hi)
                     ELSE Search(lo, mid - 1)
    IN  Search(0, Min(v, 46340))

\* np.logspace(log10(start), log10(stop), num) for num 2 or 3: start, then
\* for num 3 the geometric mean sqrt(start * stop) to three decimals, stop.
logspace(start, stop, num) ==
    IF num = 2 THEN <<start, stop>>
    ELSE LET product == RMul(start, stop)
         IN  <<start,
               Rat(ISqrt((product.n * 1000000) \div product.d), 1000),
               stop>>

\* The grid rebin bins onto: new_q, or the one it generates from q when
\* new_q is None: logspace from q[0] to q[-1] + epsilon, or linspace from
\* q.min() to q.max() + epsilon.
rebin_new_q(q, new_q, rebin_as, number_of_q_vectors) ==
    IF new_q # None THEN new_q[1]
    ELSE IF rebin_as = "log"
    THEN logspace(q[1], RAdd(q[Len(q)], RInt(epsilon)), number_of_q_vectors)
    ELSE default_new_q(q, number_of_q_vectors)

\* The loop of rebin over the bins: binned_q, binned_R, binned_R_e (squared),
\* each of the length of new_q and 0 where the loop stored nothing.
rebin_binned(q, R, R_e2, new_q) ==
    [i \in 1..Len(new_q) |->
        LET indices == IF i = Len(new_q) THEN {}
                       ELSE {j \in 1..Len(q) :
                               RLe(new_q[i], q[j]) /\ RLt(q[j], new_q[i + 1])}
            RECURSIVE Weighted(_, _)
            Weighted(x, j) ==
                IF j > Len(q) THEN RInt(0)
                ELSE RAdd(IF j \in indices THEN RDiv(x[j], R_e2[j]) ELSE RInt(0),
                          Weighted(x, j + 1))
            sum_of_inverse_var == Weighted(Constant(Len(q), RInt(1)), 1)
        IN  IF indices = {}
            THEN [q |-> RInt(0), R |-> RInt(0), R_e2 |-> RInt(0)]
            ELSE [q |-> RDiv(Weighted(q, 1), sum_of_inverse_var),
                  R |-> RDiv(Weighted(R, 1), sum_of_inverse_var),
                  R_e2 |-> RDiv(RInt(1), sum_of_inverse_var)]]

\* 1/float(R_e[j]**2) raises ZeroDivisionError for a point that lies in a bin
\* and has error 0.
rebin_raises(q, R_e2, new_q) ==
    \E i \in 1..(Len(new_q) - 1), j \in 1..Len(q) :
        /\ RLe(new_q[i], q[j]) /\ RLt(q[j], new_q[i + 1])
        /\ R_e2[j] = RInt(0)

rebin_keeping_zero_bins(q, R, R_e2, new_q) ==
    LET binned == rebin_binned(q, R, R_e2, new_q)
    IN  [q |-> [i \in 1..Len(binned) |-> binned[i].q],
         intensity |-> [i \in 1..Len(binned) |-> binned[i].R],
         intensity_e2 |-> [i \in 1..Len(binned) |-> binned[i].R_e2]]

\* stitching.rebin(q_vectors, (R, R_e), new_q): the bins, without every
\* position whose binned_R is 0.
rebin(q, R, R_e2, new_q) ==
    LET binned  == rebin_binned(q, R, R_e2, new_q)
        cleaned == SelectSeq(binned, LAMBDA b : b.R # RInt(0))
    IN  [q |-> [i \in 1..Len(cleaned) |-> cleaned[i].q],
         intensity |-> [i \in 1..Len(cleaned) |-> cleaned[i].R],
         intensity_e2 |-> [i \in 1..Len(cleaned) |-> cleaned[i].R_e2]]

------------------------------------------------------------------------------
(* Profile: a record of data and scans.                                    *)

\* A concatenate that leaves the curve of the profile as it is.
Profile_concatenate_kept(profile) == profile

\* Profile.concatenate(): the setters of q, intensity and intensity_e.
Profile_concatenate(profile) ==
    LET c == concatenate(profile.scans)
    IN  [profile EXCEPT !.data.q_ = Some(c.q),
                        !.data.intensity = c.intensity,
                        !.data.intensity_e2 = c.intensity_e2]

\* Profile.fromfilenames taking the energy of the last scan
Profile_fromscans_last_energy(scans) ==
    LET c == concatenate(scans)
    IN  [data |-> Data(c.intensity, c.intensity_e2,
                       scans[Len(scans)].metadata.probe_energy, None,
                       Some(c.q)),
         scans |-> scans]

\* Profile.fromfilenames, once the parser has returned the scans
Profile_fromscans(scans) ==
    LET c == concatenate(scans)
    IN  [data |-> Data(c.intensity, c.intensity_e2,
                       scans[1].metadata.probe_energy, None, Some(c.q)),
         scans |-> scans]

\* Profile.crop: for scan in self.scans: scan.crop(...); self.concatenate()
Profile_crop(profile, region) ==
    Profile_concatenate(
        [profile EXCEPT !.scans = [k \in 1..Len(profile.scans) |->
            Scan2D_crop(profile.scans[k], region)]])

\* Profile.bkg_sub
Profile_bkg_sub(profile, list_of_regions) ==
    Profile_concatenate(
        [profile EXCEPT !.scans = [k \in 1..Len(profile.scans) |->
            Scan2D_bkg_sub(profile.scans[k], list_of_regions)]])

\* scan_ID in scan.metadata.filename
IsSubstring(scan_ID, filename) ==
    \E a \in 1..(Len(filename) + 1) :
        /\ a + Len(scan_ID) - 1 <= Len(filename)
        /\ SubSeq(filename, a, a + Len(scan_ID) - 1) = scan_ID

\* metadata.filename, the name of the file the scan was parsed from; the
\* metadata classes name it src_path.
metadata_filename(metadata) == metadata.filename

Profile_subsample_q_every_scan(profile, scan_ID, q_min, q_max) ==
    Profile_concatenate(
        [profile EXCEPT !.scans = [k \in 1..Len(profile.scans) |->
            Scan2D_subsample_q(profile.scans[k], q_min, q_max)]])

\* Profile.subsample_q: only the scans whose file name contains scan_ID
Profile_subsample_q(profile, scan_ID, q_min, q_max) ==
    Profile_concatenate(
        [profile EXCEPT !.scans = [k \in 1..Len(profile.scans) |->
            IF IsSubstring(scan_ID, metadata_filename(profile.scans[k].metadata))
            THEN Scan2D_subsample_q(profile.scans[k], q_min, q_max)
            ELSE profile.scans[k]]])

\* Profile.footprint_correction
Profile_footprint_correction(profile, beam_width, sample_size) ==
    Profile_concatenate(
        [profile EXCEPT !.scans = [k \in 1..Len(profile.scans) |->
            Scan2D_footprint_correction(profile.scans[k], beam_width,
                                        sample_size)]])

\* Profile.transmission_normalisation, allow_stitching False
Profile_transmission_normalisation(profile) ==
    Profile_concatenate(
        [profile EXCEPT !.scans = [k \in 1..Len(profile.scans) |->
            Scan2D_transmission_normalisation(profile.scans[k])]])

\* Profile.qdcd_normalisation
Profile_qdcd_normalisation(profile, itp) ==
    Profile_concatenate(
        [profile EXCEPT !.scans = [k \in 1..Len(profile.scans) |->
            Scan2D_qdcd_normalisation(profile.scans[k], itp)]])

\* The grid Profile.rebin bins onto: new_q is optional.
Profile_new_q(profile, new_q, number_of_q_vectors) ==
    IF new_q = None
    THEN default_new_q(DataQ(profile.data), number_of_q_vectors)
    ELSE new_q[1]

\* Profile.rebin(new_q, number_of_q_vectors)
Profile_rebin(profile, new_q, number_of_q_vectors) ==
    LET q == DataQ(profile.data)
        r == rebin(q, profile.data.intensity, profile.data.intensity_e2,
                   Profile_new_q(profile, new_q, number_of_q_vectors))
    IN  [profile EXCEPT !.data.q_ = Some(r.q),
                        !.data.intensity = r.intensity,
                        !.data.intensity_e2 = r.intensity_e2]

------------------------------------------------------------------------------
(* State.                                                                  *)

VARIABLES
    image,        \* SpecImage: the Image under test
    image_first,  \* history: array_original as Image.__init__ stored it
    image_raw,    \* history: the pixels array would hold had nothing been subtracted
    image_log,    \* history: the calls made, each with the image before the call
    profile,      \* Spec: the Profile, its data and its scans
    prof_last,    \* history: the latest Profile call, with the profile before it
    prof_ops,     \* history: the number of Profile calls made
    rebin_args,   \* SpecRebin: the arguments of a stitching.rebin call
    rebin_result, \* SpecRebin: what the call returned, None before it returns
    run_cfg,      \* SpecRunner: the arguments and the recipe of an i07reduce run
    run_pc,       \* SpecRunner: the stage i07reduce is about to enter
    run_refl,     \* SpecRunner: refl, the Profile of the run
    run_todo,     \* SpecRunner: the q_subsample_dicts still to be applied
    run_calls,    \* history: the Profile methods i07reduce has invoked, in order
    run_count,    \* history: per scan and image, the crops and subtractions made
    run_raised,   \* SpecRunner: None, or the exception that ended the run
    run_out,      \* SpecRunner: None, or the call and the path of the file written
    scan2d,       \* SpecRemove: None, or the Scan2D the parser returned
    scan2d_file,  \* SpecRemove: None, or the file it was parsed from
    scan2d_call,  \* SpecRemove: None, or the latest call made on the scan
    data_obj,     \* SpecData: the Data whose reflectivity is read
    data_read,    \* SpecData: None, or what reading R and R_e gave
    region_args,  \* SpecRegion: the arguments of a Region construction
    region_obj,   \* SpecRegion: None, or the Region constructed
    fn_args,      \* SpecFind, SpecConvert, SpecHot: the arguments of a call
    fn_result     \* None, or what the call returned or raised

ImageVars == <<image, image_first, image_raw, image_log>>

ProfileVars == <<profile, prof_last, prof_ops>>

RebinVars == <<rebin_args, rebin_result>>

RunVars ==
    <<run_cfg, run_pc, run_refl, run_todo, run_calls, run_count, run_raised,
      run_out>>

ScanVars == <<scan2d, scan2d_file, scan2d_call>>

DataVars == <<data_obj, data_read>>

RegionVars == <<region_args, region_obj>>

FnVars == <<fn_args, fn_result>>

vars ==
    <<ImageVars, ProfileVars, RebinVars, RunVars, ScanVars, DataVars,
      RegionVars, FnVars>>

\* The variables of a specification that another specification leaves alone.
IdleImage ==
    /\ image = None
    /\ image_first = None
    /\ image_raw = None
    /\ image_log = <<>>

IdleProfile ==
    /\ profile = None
    /\ prof_last = [op |-> "none"]
    /\ prof_ops = 0

IdleRebin ==
    /\ rebin_args = None
    /\ rebin_result = None

IdleData ==
    /\ data_obj = None
    /\ data_read = None

IdleRegion ==
    /\ region_args = None
    /\ region_obj = None

IdleFn ==
    /\ fn_args = None
    /\ fn_result = None

IdleScan ==
    /\ scan2d = None
    /\ scan2d_file = None
    /\ scan2d_call = None

IdleRun ==
    /\ run_cfg = None
    /\ run_pc = "idle"
    /\ run_refl = None
    /\ run_todo = <<>>
    /\ run_calls = <<>>
    /\ run_count = <<>>
    /\ run_raised = None
    /\ run_out = None

------------------------------------------------------------------------------
(* SpecImage: one Image under any sequence of crop and                     *)
(* background_subtraction(roi_subtraction, ...) calls.                     *)

MaxImageOps == 3

\* Detector frames handed to Image.__init__ (2 rows by 3 columns of counts).
Frame1 == Mat(2, 3, <<1, 2, 0, 3, 5, 1>>)

Frame2 == Mat(2, 3, <<0, 0, 4, 0, 0, 2>>)

Frame3 == Mat(2, 3, <<0, 0, 0, 0, 0, 0>>)

ImageArrays == {Frame1, Frame2, Frame3}

\* Regions handed to crop and to roi_subtraction; RegionC reaches past the
\* edge of every frame.
RegionA == Region(0, 1, 0, 2)

RegionB == Region(0, 2, 1, 3)

RegionC == Region(1, 3, 1, 4)

RegionFull == Region(0, 2, 0, 3)

Regions == {RegionA, RegionB, RegionC, RegionFull}

RegionLists ==
    {<<r>> : r \in Regions} \cup {<<RegionA, RegionB>>, <<RegionB, RegionC>>}

InitImage ==
    /\ \E array \in ImageArrays, transpose \in BOOLEAN :
        /\ image = Image(array, transpose)
        /\ image_first = Image(array, transpose).array_original
        /\ image_raw = Image(array, transpose).array
        /\ image_log = <<>>
    /\ IdleProfile
    /\ IdleRebin
    /\ IdleRun
    /\ IdleScan
    /\ IdleData
    /\ IdleRegion
    /\ IdleFn

\* image.crop(crop_to_region, region=region)
DoImageCrop ==
    /\ Len(image_log) < MaxImageOps
    /\ \E region \in Regions :
        /\ image' = ImageCrop(image, region)
        /\ image_raw' = crop_to_region(image_raw, region)
        /\ image_log' = Append(image_log,
               [op |-> "crop", region |-> region, before |-> image])
    /\ UNCHANGED <<image_first, ProfileVars, RebinVars, RunVars, ScanVars,
                   DataVars, RegionVars, FnVars>>

\* image.background_subtraction(roi_subtraction, list_of_regions=...)
DoImageBkgSub ==
    /\ Len(image_log) < MaxImageOps
    /\ \E list_of_regions \in RegionLists :
        LET bkg_sub_info == roi_subtraction(image, list_of_regions)
        IN  /\ image' = background_subtraction(image, bkg_sub_info)
            /\ image_log' = Append(image_log,
                   [op |-> "bkg", regions |-> list_of_regions,
                    info |-> bkg_sub_info, before |-> image])
    /\ UNCHANGED <<image_first, image_raw, ProfileVars, RebinVars, RunVars,
                   ScanVars, DataVars, RegionVars, FnVars>>

NextImage == DoImageCrop \/ DoImageBkgSub

SpecImage == InitImage /\ [][NextImage]_vars

------------------------------------------------------------------------------
(* Spec: a Profile built from parsed scans, under any sequence of its      *)
(* operations.                                                             *)

MaxProfileOps == 3

\* What i07_nxs_parser returns for a file: the rough intensities of the file
\* with their square roots as errors, the axis as theta or as q, the frames
\* transposed.
ParsedScan(filename, axis_type, axis, rough_intensity, transmission, frames, probe_energy) ==
    Scan2D(
        Data([i \in 1..Len(rough_intensity) |-> RInt(rough_intensity[i])],
             [i \in 1..Len(rough_intensity) |-> RInt(rough_intensity[i])],
             probe_energy,
             IF axis_type = "th"
             THEN Some([i \in 1..Len(axis) |-> RInt(axis[i])]) ELSE None,
             IF axis_type = "q"
             THEN Some([i \in 1..Len(axis) |-> RInt(axis[i])]) ELSE None),
        [filename |-> filename, transmission |-> transmission,
         probe_energy |-> probe_energy, signal_regions |-> <<RegionB>>,
         background_regions |-> <<RegionA, RegionFull>>],
        [i \in 1..Len(frames) |-> Image(frames[i], TRUE)])

\* A scan over theta = 0.091, 0.182, 0.273 degrees (q = 0.020, 0.040, 0.060).
ScanTh ==
    ParsedScan(<<"7", "1">>, "th", <<91, 182, 273>>, <<9, 4, 2>>, Rat(1, 2),
               <<Frame1, Frame2, Frame1>>, 125)

\* A scan over q = 0.040, 0.060 that overlaps the first.
ScanQ ==
    ParsedScan(<<"7", "2">>, "q", <<40, 60>>, <<3, 1>>, RInt(1),
               <<Frame2, Frame3>>, 125)

\* The same scan taken at 10 keV.
ScanQ10keV ==
    ParsedScan(<<"7", "5">>, "q", <<40, 60>>, <<3, 1>>, RInt(1),
               <<Frame2, Frame3>>, 100)

ScanLists ==
    {<<ScanTh, ScanQ>>, <<ScanQ, ScanTh>>, <<ScanTh>>, <<ScanTh, ScanQ10keV>>}

ProfileCropRegions == {RegionB, RegionC}

ProfileBkgLists == {<<RegionA>>, <<RegionB, RegionC>>}

ScanIDs == {<<"1">>, <<"7">>, <<"9">>}

QBounds == {<<RInt(40), RInt(60)>>, <<RInt(30), RInt(50)>>}

\* beam width and sample size in micrometres
Setups == {[beam_width |-> 100, sample_size |-> 20000]}

\* The interpolator of the DCD normalisation file: knots and values.
Itp == <<[q |-> 0, value |-> 1], [q |-> 40, value |-> 2], [q |-> 80, value |-> 1]>>

NewQs == {None, Some(<<RInt(0), RInt(30), RInt(50), RInt(100)>>)}

QVectorCounts == {3}

Init ==
    /\ \E scans \in ScanLists : profile = Profile_fromscans(scans)
    /\ prof_last = [op |-> "fromfilenames"]
    /\ prof_ops = 0
    /\ IdleImage
    /\ IdleRebin
    /\ IdleRun
    /\ IdleScan
    /\ IdleData
    /\ IdleRegion
    /\ IdleFn

Called(op, args) ==
    /\ prof_ops < MaxProfileOps
    /\ prof_ops' = prof_ops + 1
    /\ prof_last' = [op |-> op, args |-> args, before |-> profile,
                     before_op |-> prof_last.op]
    /\ UNCHANGED <<ImageVars, RebinVars, RunVars, ScanVars,
                   DataVars, RegionVars, FnVars>>

DoCrop ==
    \E region \in ProfileCropRegions :
        /\ profile' = Profile_crop(profile, region)
        /\ Called("crop", <<region>>)

DoBkgSub ==
    \E list_of_regions \in ProfileBkgLists :
        /\ profile' = Profile_bkg_sub(profile, list_of_regions)
        /\ Called("bkg_sub", <<list_of_regions>>)

DoSubsampleQ ==
    \E scan_ID \in ScanIDs, b \in QBounds :
        /\ profile' = Profile_subsample_q(profile, scan_ID, b[1], b[2])
        /\ Called("subsample_q", <<scan_ID, b[1], b[2]>>)

DoFootprintCorrection ==
    \E setup \in Setups :
        /\ profile' = Profile_footprint_correction(profile, setup.beam_width,
                                                   setup.sample_size)
        /\ Called("footprint_correction", <<setup>>)

DoTransmissionNormalisation ==
    /\ profile' = Profile_transmission_normalisation(profile)
    /\ Called("transmission_normalisation", <<>>)

DoQdcdNormalisation ==
    /\ profile' = Profile_qdcd_normalisation(profile, Itp)
    /\ Called("qdcd_normalisation", <<Itp>>)

DoConcatenate ==
    /\ profile' = Profile_concatenate(profile)
    /\ Called("concatenate", <<>>)

\* rebin with new_q None takes q.min() and q.max(), which raise on an empty
\* q; a call that raises assigns nothing.  The model rebins a concatenated
\* curve, not the output of an earlier rebin.
DoRebin ==
    \E new_q \in NewQs, number_of_q_vectors \in QVectorCounts :
        /\ prof_last.op # "rebin"
        /\ new_q = None => DataQ(profile.data) # <<>>
        /\ ~rebin_raises(DataQ(profile.data), profile.data.intensity_e2,
                         Profile_new_q(profile, new_q, number_of_q_vectors))
        /\ profile' = Profile_rebin(profile, new_q, number_of_q_vectors)
        /\ Called("rebin", <<new_q, number_of_q_vectors>>)

Next ==
    \/ DoCrop
    \/ DoBkgSub
    \/ DoSubsampleQ
    \/ DoFootprintCorrection
    \/ DoTransmissionNormalisation
    \/ DoQdcdNormalisation
    \/ DoConcatenate
    \/ DoRebin

Spec == Init /\ [][Next]_vars

------------------------------------------------------------------------------
(* SpecRebin: one call of stitching.rebin on a curve and an explicit grid. *)

MaxPoints == 4

Point(q, R, R_e2) == [q |-> RInt(q), R |-> RInt(R), R_e2 |-> RInt(R_e2)]

\* The data points a curve is made of: q in 1/1000 inverse Angstrom, the
\* intensity, the square of its error.
RebinPoints ==
    {Point(2, 1, 1), Point(3, -1, 1), Point(6, 3, 4), Point(8, 1, 4),
     Point(8, 2, 1), Point(10, 0, 4), Point(10, 2, 4), Point(20, 5, 1)}

RebinCurves == UNION {[1..n -> RebinPoints] : n \in 0..MaxPoints}

RebinGrids ==
    {<<RInt(0), RInt(5), RInt(10), RInt(20), RInt(30)>>,
     <<RInt(0), RInt(10), RInt(20)>>}

\* How a call names its grid: new_q, or rebin_as and number_of_q_vectors.
RebinGridArgs ==
    {[new_q |-> Some(g), rebin_as |-> "linear", number_of_q_vectors |-> 3] :
        g \in RebinGrids}
    \cup {[new_q |-> None, rebin_as |-> "linear", number_of_q_vectors |-> 3],
          [new_q |-> None, rebin_as |-> "log", number_of_q_vectors |-> 2],
          [new_q |-> None, rebin_as |-> "log", number_of_q_vectors |-> 3]}

InitRebin ==
    /\ \E curve \in RebinCurves, grid \in RebinGridArgs :
          rebin_args = [q    |-> [j \in 1..Len(curve) |-> curve[j].q],
                        R    |-> [j \in 1..Len(curve) |-> curve[j].R],
                        R_e2 |-> [j \in 1..Len(curve) |-> curve[j].R_e2],
                        new_q |-> grid.new_q,
                        rebin_as |-> grid.rebin_as,
                        number_of_q_vectors |-> grid.number_of_q_vectors]
    /\ rebin_result = None
    /\ IdleImage
    /\ IdleProfile
    /\ IdleRun
    /\ IdleScan
    /\ IdleData
    /\ IdleRegion
    /\ IdleFn

\* rebin(q_vectors, (R, R_e), new_q, rebin_as, number_of_q_vectors) returns
\* or, for an empty q and no new_q, raises at q.min() or q[0].
DoRebinCall ==
    /\ rebin_result = None
    /\ IF rebin_args.new_q = None /\ rebin_args.q = <<>>
       THEN rebin_result' = Some([raised |-> TRUE])
       ELSE LET new_q == rebin_new_q(rebin_args.q, rebin_args.new_q,
                             rebin_args.rebin_as,
                             rebin_args.number_of_q_vectors)
                out   == rebin(rebin_args.q, rebin_args.R, rebin_args.R_e2,
                               new_q)
            IN  rebin_result' =
                    Some([raised |-> FALSE, new_q |-> new_q, q |-> out.q,
                          intensity |-> out.intensity,
                          intensity_e2 |-> out.intensity_e2])
    /\ UNCHANGED <<rebin_args, ImageVars, ProfileVars, RunVars, ScanVars,
                   DataVars, RegionVars, FnVars>>

NextRebin == DoRebinCall

SpecRebin == InitRebin /\ [][NextRebin]_vars

------------------------------------------------------------------------------
(* SpecRunner: one run of i07reduce, stage by stage.  run_pc names the     *)
(* stage the run is about to enter, "done" once the output was prepared,   *)
(* "raised" once an exception has ended the run.                           *)

MaxSubsampleDicts == 2

\* q_subsample_dicts: None, or a list of {'scan_ID', 'q_min', 'q_max'}
SubsampleDicts ==
    {[scan_ID |-> <<"1">>, q_min |-> RInt(40), q_max |-> RInt(60)],
     [scan_ID |-> <<"7">>, q_min |-> RInt(30), q_max |-> RInt(50)]}

SubsampleArgs ==
    {None} \cup
    {Some(l) : l \in UNION {[1..n -> SubsampleDicts] : n \in 0..MaxSubsampleDicts}}

\* The 'background' section of the recipe: absent (bkg_function stays
\* fit_gaussian_1d, bkg_kwargs None), method 'roi_subtraction' without or
\* with kwargs {x_start, x_end, y_start, y_end}, or method 'None' or 'none'.
BackgroundRecipes ==
    {[method |-> "absent", kwargs |-> None],
     [method |-> "roi_subtraction", kwargs |-> None],
     [method |-> "roi_subtraction", kwargs |-> Some(RegionA)],
     [method |-> "None", kwargs |-> None],
     [method |-> "none", kwargs |-> None]}

\* The top-level keys of a recipe besides its optional sections: those of
\* instrument, setup and visit it lacks, and those it has that no schema
\* names.
RecipeShapes ==
    {[lacking |-> {}, unknown |-> {}],
     [lacking |-> {}, unknown |-> {"ajustments"}],
     [lacking |-> {"instrument"}, unknown |-> {}],
     [lacking |-> {"setup"}, unknown |-> {}],
     [lacking |-> {"visit"}, unknown |-> {}]}

\* recipe.keys()
recipe_keys(cfg) ==
    ({"instrument", "setup", "visit"} \ cfg.shape.lacking)
    \cup cfg.shape.unknown
    \cup (IF cfg.crop_kwargs # None THEN {"crop"} ELSE {})
    \cup (IF cfg.background.method # "absent" THEN {"background"} ELSE {})
    \cup (IF cfg.rebin # None THEN {"rebin"} ELSE {})

validate_background_method(method) ==
    method \in {"roi_subtraction", "None", "none"}

\* config_schema.validate raises SchemaError: a key that is not optional is
\* missing, a key is in no schema, or a validator of a value raises.
check_config_schema_raises(cfg) ==
    \/ ~({"instrument", "setup", "visit"} \subseteq recipe_keys(cfg))
    \/ ~(recipe_keys(cfg) \subseteq
            {"instrument", "setup", "visit", "crop", "background",
             "adjustments", "rebin", "normalisation", "transmission",
             "output_columns"})
    \/ /\ "background" \in recipe_keys(cfg)
       /\ ~validate_background_method(cfg.background.method)

\* The keys of function_map; function_map[key] raises KeyError for another.
function_map_keys == {"roi_subtraction", "None", "i07", "crop"}

\* Foreperson.setup raises: the schema check, then the look-up of the
\* background method in function_map.
setup_raises(cfg) ==
    \/ check_config_schema_raises(cfg)
    \/ /\ "background" \in recipe_keys(cfg)
       /\ cfg.background.method \notin function_map_keys

\* the_boss.reduction.bkg_function after Foreperson.setup
bkg_function(cfg) ==
    IF cfg.background.method = "absent" THEN "fit_gaussian_1d"
    ELSE cfg.background.method

\* The 'crop' section: absent, or method 'crop' with kwargs.
CropRecipes == {None, Some(RegionC)}

\* The 'rebin' section: absent, or 'n qvectors'.
RebinRecipes == {None} \cup {Some(n) : n \in QVectorCounts}

\* 'dcd normalisation' of the 'setup' section: absent or a file.
DcdRecipes == {None, Some(Itp)}

InitRunner ==
    /\ \E scans \in ScanLists, ends_with_sep \in BOOLEAN, crop \in CropRecipes,
          background \in BackgroundRecipes, dcd \in DcdRecipes,
          setup \in Setups, rebin_recipe \in RebinRecipes,
          q_subsample_dicts \in SubsampleArgs, keys \in RecipeShapes :
              run_cfg = [files |-> scans,
                         shape |-> keys,
                         directory_ends_with_sep |-> ends_with_sep,
                         crop_kwargs |-> crop,
                         background |-> background,
                         dcd_normalisation |-> dcd,
                         setup |-> setup,
                         rebin |-> rebin_recipe,
                         q_subsample_dicts |-> q_subsample_dicts]
    /\ run_pc = "start"
    /\ run_refl = None
    /\ run_todo = <<>>
    /\ run_calls = <<>>
    /\ run_count = <<>>
    /\ run_raised = None
    /\ run_out = None
    /\ IdleImage
    /\ IdleProfile
    /\ IdleRebin
    /\ IdleScan
    /\ IdleData
    /\ IdleRegion
    /\ IdleFn

\* The run goes on to a stage, or an exception ends it.
Go(stage) == run_pc' = stage /\ UNCHANGED <<run_raised, run_out>>

Raise(exception) == run_pc' = "raised" /\ run_raised' = Some(exception) /\ UNCHANGED run_out

RunFrame == UNCHANGED <<run_cfg, ImageVars, ProfileVars, RebinVars, ScanVars,
                        DataVars, RegionVars, FnVars>>

\* history: one more crop (what = "crops") or subtraction (what = "bkgs") on
\* every image that range(len(scan.q)) reaches; a subtraction notes whether
\* its image had been cropped.
Counted(count, refl, what) ==
    [k \in 1..Len(count) |->
        [i \in 1..Len(count[k]) |->
            IF i > Len(DataQ(refl.scans[k].data)) THEN count[k][i]
            ELSE IF what = "crops"
                 THEN [count[k][i] EXCEPT !.crops = @ + 1]
                 ELSE [count[k][i] EXCEPT
                          !.bkgs = @ + 1,
                          !.uncropped = @ \/ count[k][i].crops = 0]]]

\* The directory check, Foreperson(...) and Profile.fromfilenames: the_boss
\* is bound only inside the branch taken when directory lacks the trailing
\* separator, and reading it otherwise raises NameError.  Foreperson
\* validates the recipe and looks its methods up before any file is parsed.
RunStart ==
    /\ run_pc = "start"
    /\ IF run_cfg.directory_ends_with_sep
       THEN /\ Raise("NameError")
            /\ UNCHANGED <<run_refl, run_todo, run_calls, run_count>>
       ELSE IF setup_raises(run_cfg)
       THEN /\ Raise(IF check_config_schema_raises(run_cfg)
                     THEN "SchemaError" ELSE "KeyError")
            /\ UNCHANGED <<run_refl, run_todo, run_calls, run_count>>
       ELSE /\ run_refl' = Profile_fromscans(run_cfg.files)
            /\ run_count' =
                  [k \in 1..Len(run_cfg.files) |->
                      [i \in 1..Len(run_cfg.files[k].images) |->
                          [crops |-> 0, bkgs |-> 0, uncropped |-> FALSE]]]
            /\ Go("crop")
            /\ UNCHANGED <<run_todo, run_calls>>
    /\ RunFrame

\* "Cropping": the region is the recipe's, or the first signal region of the
\* first scan.
RunCrop ==
    /\ run_pc = "crop"
    /\ LET region == IF run_cfg.crop_kwargs = None
                     THEN run_refl.scans[1].metadata.signal_regions[1]
                     ELSE run_cfg.crop_kwargs[1]
       IN  run_refl' = Profile_crop(run_refl, region)
    /\ run_calls' = Append(run_calls, "crop")
    /\ run_count' = Counted(run_count, run_refl, "crops")
    /\ Go("bkg")
    /\ UNCHANGED run_todo
    /\ RunFrame

RunBkgWhateverTheMethod ==
    /\ run_pc = "bkg"
    /\ run_refl' = Profile_bkg_sub(run_refl,
                       run_refl.scans[1].metadata.background_regions)
    /\ run_calls' = Append(run_calls, "bkg_sub")
    /\ run_count' = Counted(run_count, run_refl, "bkgs")
    /\ Go("dcd")
    /\ UNCHANGED run_todo
    /\ RunFrame

\* "Subtracting background": bkg_sub is called unless bkg_function is None.
\* With bkg_kwargs None and a function other than roi_subtraction the call
\* expression **bkg_kwargs raises TypeError before bkg_sub is entered; with
\* kwargs in the recipe list_of_regions is one Region, and roi_subtraction
\* raises TypeError iterating it, before any image is changed.
RunBkg ==
    /\ run_pc = "bkg"
    /\ IF bkg_function(run_cfg) = "None"
       THEN /\ Go("dcd")
            /\ UNCHANGED <<run_refl, run_calls, run_count>>
       ELSE IF bkg_function(run_cfg) = "fit_gaussian_1d"
       THEN /\ Raise("TypeError")
            /\ UNCHANGED <<run_refl, run_calls, run_count>>
       ELSE IF run_cfg.background.kwargs # None
       THEN /\ run_calls' = Append(run_calls, "bkg_sub")
            /\ Raise("TypeError")
            /\ UNCHANGED <<run_refl, run_count>>
       ELSE /\ run_refl' = Profile_bkg_sub(run_refl,
                               run_refl.scans[1].metadata.background_regions)
            /\ run_calls' = Append(run_calls, "bkg_sub")
            /\ run_count' = Counted(run_count, run_refl, "bkgs")
            /\ Go("dcd")
    /\ UNCHANGED run_todo
    /\ RunFrame

\* "DCD normalisation", only if the recipe names a normalisation file
RunDcd ==
    /\ run_pc = "dcd"
    /\ IF run_cfg.dcd_normalisation # None
       THEN /\ run_refl' = Profile_qdcd_normalisation(run_refl,
                               run_cfg.dcd_normalisation[1])
            /\ run_calls' = Append(run_calls, "qdcd_normalisation")
       ELSE UNCHANGED <<run_refl, run_calls>>
    /\ Go("footprint")
    /\ UNCHANGED <<run_todo, run_count>>
    /\ RunFrame

\* "Footprint correction."
RunFootprint ==
    /\ run_pc = "footprint"
    /\ run_refl' = Profile_footprint_correction(run_refl,
                       run_cfg.setup.beam_width, run_cfg.setup.sample_size)
    /\ run_calls' = Append(run_calls, "footprint_correction")
    /\ Go("transmission")
    /\ UNCHANGED <<run_todo, run_count>>
    /\ RunFrame

\* "Transmission normalisation."
RunTransmission ==
    /\ run_pc = "transmission"
    /\ run_refl' = Profile_transmission_normalisation(run_refl)
    /\ run_calls' = Append(run_calls, "transmission_normalisation")
    /\ Go("concatenate")
    /\ UNCHANGED <<run_todo, run_count>>
    /\ RunFrame

\* refl.concatenate(); then the list to loop over, if any
RunConcatenate ==
    /\ run_pc = "concatenate"
    /\ run_refl' = Profile_concatenate(run_refl)
    /\ run_calls' = Append(run_calls, "concatenate")
    /\ run_todo' = IF run_cfg.q_subsample_dicts = None THEN <<>>
                   ELSE run_cfg.q_subsample_dicts[1]
    /\ Go("subsample")
    /\ UNCHANGED run_count
    /\ RunFrame

\* "Bounding q-vectors.": one subsample_q call for each dict of the list
RunSubsample ==
    /\ run_pc = "subsample"
    /\ IF run_todo = <<>>
       THEN /\ Go("rebin")
            /\ UNCHANGED <<run_refl, run_todo, run_calls>>
       ELSE /\ run_refl' = Profile_subsample_q(run_refl, Head(run_todo).scan_ID,
                               Head(run_todo).q_min, Head(run_todo).q_max)
            /\ run_calls' = Append(run_calls, "subsample_q")
            /\ run_todo' = Tail(run_todo)
            /\ Go("subsample")
    /\ UNCHANGED run_count
    /\ RunFrame

\* "Rebinning the data.", only if the recipe has a 'rebin' section: q_min of
\* the_boss.data is None, so refl.rebin(number_of_q_vectors=n_qvectors).
\* rebin raises ValueError on an empty q (q.min()) and ZeroDivisionError on
\* a binned point whose error is 0.
RunRebin ==
    /\ run_pc = "rebin"
    /\ IF run_cfg.rebin = None
       THEN /\ Go("write")
            /\ UNCHANGED <<run_refl, run_calls>>
       ELSE /\ run_calls' = Append(run_calls, "rebin")
            /\ IF \/ DataQ(run_refl.data) = <<>>
                  \/ rebin_raises(DataQ(run_refl.data),
                         run_refl.data.intensity_e2,
                         Profile_new_q(run_refl, None, run_cfg.rebin[1]))
               THEN /\ Raise(IF DataQ(run_refl.data) = <<>>
                              THEN "ValueError" ELSE "ZeroDivisionError")
                    /\ UNCHANGED run_refl
               ELSE /\ run_refl' = Profile_rebin(run_refl, None, run_cfg.rebin[1])
                    /\ Go("write")
    /\ UNCHANGED <<run_todo, run_count>>
    /\ RunFrame

\* A path is the sequence of its pieces, "/" being the separator.
\* os.path.join of two paths.
path_join(a, b) ==
    IF a # <<>> /\ a[Len(a)] = "/" THEN a \o b ELSE a \o <<"/">> \o b

\* The directory a path lies in: the pieces before its last separator.
path_dirname(p) ==
    LET seps == {i \in 1..Len(p) : p[i] = "/"}
    IN  IF seps = {} THEN <<>>
        ELSE SubSeq(p, 1, (CHOOSE i \in seps : \A j \in seps : j <= i) - 1)

\* The name of a path: the pieces after its last separator.
path_basename(p) ==
    LET seps == {i \in 1..Len(p) : p[i] = "/"}
    IN  IF seps = {} THEN p
        ELSE SubSeq(p, (CHOOSE i \in seps : \A j \in seps : j <= i) + 1, Len(p))

\* The run numbers of the experiment, in ascending order, as text.
RunNumbers == <<"404875", "404876">>

\* run_numbers.sort(); run_numbers[0]
first_run(run_numbers) ==
    LET given == {run_numbers[i] : i \in 1..Len(run_numbers)}
    IN  RunNumbers[CHOOSE k \in 1..Len(RunNumbers) :
                      /\ RunNumbers[k] \in given
                      /\ \A j \in 1..(k - 1) : RunNumbers[j] \notin given]

\* 'XRR_{}_'.format(run_numbers[0]) + yaml_pipeline_name + datetime_str + ".dat"
dat_filename(run_numbers) ==
    <<"XRR_", first_run(run_numbers), "_", "recipe", "timestamp", ".dat">>

\* The experiment directory, with the separator i07reduce appends.
directory_path == <<"", "/", "dls", "/", "experiment", "/">>

\* An output directory that exists, and a file in it.
OutputDir == <<"", "/", "out">>

OutputFile == <<"", "/", "out", "/", "reduced.dat">>

Filenames == {None, Some(OutputDir), Some(OutputFile)}

RunNumberLists(length) ==
    {numbers \in [1..length -> {RunNumbers[k] : k \in 1..Len(RunNumbers)}] :
        \A i, j \in 1..length : numbers[i] = numbers[j] => i = j}

\* Where i07reduce saves the data: with no filename, the processing path
\* and the generated name added as strings; a directory given as filename
\* gets the generated name joined to it.
output_filename(filename, run_numbers) ==
    LET processing_path == path_join(directory_path, <<"processing">>)
    IN  IF filename = None THEN processing_path \o dat_filename(run_numbers)
        ELSE IF filename[1] = OutputDir
        THEN path_join(filename[1], dat_filename(run_numbers))
        ELSE filename[1]

\* q_range = [q.min(), q.max()] and the data array; min() of an empty q
\* raises ValueError.  Then the file is written.
RunWrite ==
    /\ run_pc = "write"
    /\ IF DataQ(run_refl.data) = <<>>
       THEN Raise("ValueError")
       ELSE /\ run_pc' = "done"
            /\ \E filename \in Filenames,
                  run_numbers \in RunNumberLists(Len(run_cfg.files)) :
                     run_out' = Some([filename |-> filename,
                                      run_numbers |-> run_numbers,
                                      path |-> output_filename(filename, run_numbers)])
            /\ UNCHANGED run_raised
    /\ UNCHANGED <<run_refl, run_todo, run_calls, run_count>>
    /\ RunFrame

NextRunner ==
    \/ RunStart
    \/ RunCrop
    \/ RunBkg
    \/ RunDcd
    \/ RunFootprint
    \/ RunTransmission
    \/ RunConcatenate
    \/ RunSubsample
    \/ RunRebin
    \/ RunWrite

SpecRunner == InitRunner /\ [][NextRunner]_vars

------------------------------------------------------------------------------
(* SpecRemove: one remove_data_points call on a Scan2D.                    *)

MaxIndices == 3

MaxAssignments == 1

\* A frame of one pixel, so that every image of a scan differs from the rest.
Pixel(count) == Mat(1, 1, <<count>>)

\* What a .nxs file and its .h5 file hold.
NexusFile(filename, axis_type, axis, rough_intensity, frames) ==
    [filename |-> filename, axis_type |-> axis_type, axis |-> axis,
     rough_intensity |-> rough_intensity, frames |-> frames]

\* A file of six points over theta, a file of three points over q, and a
\* file of two points over q whose .h5 file holds three frames.
NexusFiles ==
    {NexusFile(<<"7", "3">>, "th", <<91, 182, 273, 364, 455, 546>>,
               <<9, 4, 2, 7, 5, 3>>,
               <<Pixel(1), Pixel(2), Pixel(3), Pixel(4), Pixel(5), Pixel(6)>>),
     NexusFile(<<"7", "4">>, "q", <<20, 40, 60>>, <<3, 1, 8>>,
               <<Pixel(7), Pixel(8), Pixel(9)>>),
     NexusFile(<<"7", "6">>, "q", <<20, 40>>, <<3, 1>>,
               <<Pixel(7), Pixel(8), Pixel(9)>>)}

\* i07_nxs_parser(file_path)
i07_nxs_parser(file) ==
    ParsedScan(file.filename, file.axis_type, file.axis, file.rough_intensity,
               RInt(1), file.frames, 125)

\* The values an index of the list may take: from the end, in range, and
\* past the end of either scan.
IndexValues == {-1, 0, 1, 2, 4, 6}

IndexLists == UNION {[1..n -> IndexValues] : n \in 0..MaxIndices}

\* The theta and q a Data is constructed with: each given or not.
DataArgs ==
    {[theta |-> theta, q |-> q] :
        theta \in {None, Some(<<RInt(91), RInt(182)>>)},
        q \in {None, Some(<<RInt(20), RInt(40)>>)}}

\* The vector assigned to q or theta of a scan of n points.
AxisValue(n, step) == [i \in 1..n |-> RInt(step * i)]

QSteps == {20}

ThetaSteps == {91}

InitRemove ==
    /\ IdleScan
    /\ IdleImage
    /\ IdleProfile
    /\ IdleRebin
    /\ IdleRun
    /\ IdleData
    /\ IdleRegion
    /\ IdleFn

\* The assignments made to the scan so far, and whether points were removed.
Assigned == IF scan2d_call = None THEN 0 ELSE scan2d_call[1].assigned

Removed == scan2d_call # None /\ scan2d_call[1].removed

\* scan = i07_nxs_parser(file_path)
DoParse ==
    /\ scan2d = None
    /\ scan2d_call = None
    /\ \E file \in NexusFiles :
          /\ scan2d' = Some(i07_nxs_parser(file))
          /\ scan2d_file' = Some(file)
    /\ UNCHANGED <<scan2d_call, ImageVars, ProfileVars, RebinVars, RunVars,
                   DataVars, RegionVars, FnVars>>

\* scan = Scan2D(Data(intensity, intensity_e, energy, theta, q), metadata,
\* images) for two points and two images
DoConstruct ==
    /\ scan2d = None
    /\ scan2d_call = None
    /\ \E args \in DataArgs :
          IF Data_raises(args.theta, args.q)
          THEN /\ scan2d_call' = Some([op |-> "Data", args |-> args,
                                       raised |-> TRUE, assigned |-> 0,
                                       removed |-> FALSE])
               /\ UNCHANGED scan2d
          ELSE /\ scan2d' =
                     Some(Scan2D(Data(<<RInt(3), RInt(1)>>,
                                      <<RInt(3), RInt(1)>>, 125,
                                      args.theta, args.q),
                                 [filename |-> <<"7", "7">>,
                                  transmission |-> RInt(1),
                                  probe_energy |-> 125,
                                  signal_regions |-> <<RegionB>>,
                                  background_regions |-> <<RegionA>>],
                                 <<Image(Pixel(1), TRUE),
                                   Image(Pixel(2), TRUE)>>))
               /\ UNCHANGED scan2d_call
    /\ UNCHANGED <<scan2d_file, ImageVars, ProfileVars, RebinVars, RunVars,
                   DataVars, RegionVars, FnVars>>

\* scan.q = value
DoAssignQ ==
    /\ scan2d # None
    /\ Assigned < MaxAssignments
    /\ \E step \in QSteps :
          LET value == AxisValue(Len(scan2d[1].data.intensity), step)
          IN  /\ scan2d' = Some([scan2d[1] EXCEPT
                                    !.data = Data_set_q(scan2d[1].data, value)])
              /\ scan2d_call' = Some([op |-> "q", args |-> value,
                                      before |-> scan2d[1], raised |-> FALSE,
                                      assigned |-> Assigned + 1,
                                      removed |-> Removed])
    /\ UNCHANGED <<scan2d_file, ImageVars, ProfileVars, RebinVars, RunVars,
                   DataVars, RegionVars, FnVars>>

\* scan.theta = value
DoAssignTheta ==
    /\ scan2d # None
    /\ Assigned < MaxAssignments
    /\ \E step \in ThetaSteps :
          LET value == AxisValue(Len(scan2d[1].data.intensity), step)
          IN  /\ scan2d' = Some([scan2d[1] EXCEPT
                                    !.data = Data_set_theta(scan2d[1].data,
                                                            value)])
              /\ scan2d_call' = Some([op |-> "theta", args |-> value,
                                      before |-> scan2d[1], raised |-> FALSE,
                                      assigned |-> Assigned + 1,
                                      removed |-> Removed])
    /\ UNCHANGED <<scan2d_file, ImageVars, ProfileVars, RebinVars, RunVars,
                   DataVars, RegionVars, FnVars>>

\* scan.remove_data_points(indices): np.delete raises before anything is
\* assigned; a del that raises leaves the data cut and the images cut so far.
DoRemoveDataPoints ==
    /\ scan2d # None
    /\ ~Removed
    /\ \E indices \in IndexLists :
          IF np_delete_raises(scan2d[1].data.intensity, indices)
          THEN /\ scan2d_call' = Some([op |-> "remove_data_points",
                                       indices |-> indices,
                                       before |-> scan2d[1], raised |-> TRUE,
                                       assigned |-> Assigned,
                                       removed |-> TRUE])
               /\ UNCHANGED scan2d
          ELSE /\ scan2d' = Some(Scan2D_remove_data_points(scan2d[1], indices))
               /\ scan2d_call' = Some([op |-> "remove_data_points",
                                       indices |-> indices,
                                       before |-> scan2d[1],
                                       raised |-> DelEachRaises(scan2d[1].images,
                                                      SortedReverse(indices)),
                                       assigned |-> Assigned,
                                       removed |-> TRUE])
    /\ UNCHANGED <<scan2d_file, ImageVars, ProfileVars, RebinVars, RunVars,
                   DataVars, RegionVars, FnVars>>

NextRemove ==
    \/ DoParse
    \/ DoConstruct
    \/ DoAssignQ
    \/ DoAssignTheta
    \/ DoRemoveDataPoints

SpecRemove == InitRemove /\ [][NextRemove]_vars

------------------------------------------------------------------------------
(* SpecData: the reflectivity of a Data.                                   *)

MaxIntensities == 3

\* An intensity, as it may be after background subtraction, and its squared
\* error.
IntensityPoints ==
    {[intensity |-> RInt(-2), intensity_e2 |-> RInt(4)],
     [intensity |-> RInt(-1), intensity_e2 |-> RInt(1)],
     [intensity |-> RInt(0), intensity_e2 |-> RInt(1)],
     [intensity |-> RInt(1), intensity_e2 |-> RInt(1)],
     [intensity |-> RInt(3), intensity_e2 |-> RInt(1)],
     [intensity |-> RInt(3), intensity_e2 |-> RInt(4)]}

IntensityCurves == UNION {[1..n -> IntensityPoints] : n \in 0..MaxIntensities}

InitData ==
    /\ \E curve \in IntensityCurves, step \in QSteps :
          data_obj =
              Data([i \in 1..Len(curve) |-> curve[i].intensity],
                   [i \in 1..Len(curve) |-> curve[i].intensity_e2],
                   125, None, Some(AxisValue(Len(curve), step)))
    /\ data_read = None
    /\ IdleImage
    /\ IdleProfile
    /\ IdleRebin
    /\ IdleRun
    /\ IdleScan
    /\ IdleRegion
    /\ IdleFn

\* data.R and data.R_e are read; np.amax of an empty array raises.
DoReadReflectivity ==
    /\ data_read = None
    /\ IF data_obj.intensity = <<>>
       THEN data_read' = Some([raised |-> TRUE])
       ELSE data_read' = Some([raised |-> FALSE, R |-> DataR(data_obj),
                               R_e2 |-> DataR_e2(data_obj)])
    /\ UNCHANGED <<data_obj, ImageVars, ProfileVars, RebinVars, RunVars,
                   ScanVars, RegionVars, FnVars>>

NextData == DoReadReflectivity

SpecData == InitData /\ [][NextData]_vars

------------------------------------------------------------------------------
(* SpecRegion: the construction of a Region.                               *)

MaxCoordinate == 4

InitRegion ==
    /\ region_args \in [x_start : 0..MaxCoordinate, x_end : 0..MaxCoordinate,
                        y_start : 0..MaxCoordinate, y_end : 0..MaxCoordinate]
    /\ region_obj = None
    /\ IdleImage
    /\ IdleProfile
    /\ IdleRebin
    /\ IdleRun
    /\ IdleScan
    /\ IdleData
    /\ IdleFn

\* region = Region(x_start, x_end, y_start, y_end)
DoRegion ==
    /\ region_obj = None
    /\ region_obj' = Some(Region(region_args.x_start, region_args.x_end,
                                 region_args.y_start, region_args.y_end))
    /\ UNCHANGED <<region_args, ImageVars, ProfileVars, RebinVars, RunVars,
                   ScanVars, DataVars, FnVars>>

NextRegion == DoRegion

SpecRegion == InitRegion /\ [][NextRegion]_vars

------------------------------------------------------------------------------
(* SpecFind: one search for a data file.                                   *)

MaxFiles == 3

\* The path recorded in the .nxs file, and the working directory.
RecordedPath == <<"dls", "i07", "f.h5">>

Cwd == <<"home", "work">>

\* The paths that may be files.
PathsOnDisk ==
    {RecordedPath,
     <<"home", "work", "i07", "f.h5">>,
     <<"home", "work", "f.h5">>,
     <<"home", "f.h5">>,
     <<"data", "f.h5">>,
     <<"f.h5">>,
     <<"home", "work", "g.h5">>}

SearchPaths == {<<>>, <<<<"data">>>>}

InitFind ==
    /\ \E isfile \in SUBSET PathsOnDisk, additional \in SearchPaths :
          /\ Cardinality(isfile) <= MaxFiles
          /\ fn_args = Some([filename |-> RecordedPath, cwd |-> Cwd,
                             additional_search_paths |-> additional,
                             isfile |-> isfile])
    /\ fn_result = None
    /\ IdleImage
    /\ IdleProfile
    /\ IdleRebin
    /\ IdleRun
    /\ IdleScan
    /\ IdleData
    /\ IdleRegion

\* _try_to_find_files([filename], additional_search_paths)
DoFind ==
    /\ fn_args # None
    /\ fn_result = None
    /\ fn_result' = Some(try_to_find_file(fn_args[1].filename, fn_args[1].cwd,
                              fn_args[1].additional_search_paths,
                              fn_args[1].isfile))
    /\ UNCHANGED <<fn_args, ImageVars, ProfileVars, RebinVars, RunVars,
                   ScanVars, DataVars, RegionVars>>

NextFind == DoFind

SpecFind == InitFind /\ [][NextFind]_vars

------------------------------------------------------------------------------
(* SpecConvert: an angle converted to q and back at 12.5 keV.              *)

\* The largest angle converted, in degrees.
MaxTheta == 30

\* 0.001 degree, then every quarter of a degree up to MaxTheta, in
\* millidegrees.
ThetaGrid == {1} \cup {250 * k : k \in 1..(4 * MaxTheta)}

InitConvert ==
    /\ \E theta \in ThetaGrid :
          fn_args = Some([theta |-> RInt(theta), energy |-> 125])
    /\ fn_result = None
    /\ IdleImage
    /\ IdleProfile
    /\ IdleRebin
    /\ IdleRun
    /\ IdleScan
    /\ IdleData
    /\ IdleRegion

\* q = Data._theta_to_q(theta, energy)
DoThetaToQ ==
    /\ fn_args # None
    /\ fn_result = None
    /\ fn_result' = Some([q |-> theta_to_q_value(fn_args[1].theta,
                                                 fn_args[1].energy),
                          theta |-> None])
    /\ UNCHANGED <<fn_args, ImageVars, ProfileVars, RebinVars, RunVars,
                   ScanVars, DataVars, RegionVars>>

\* theta = Data._q_to_theta(q, energy)
DoQToTheta ==
    /\ fn_result # None
    /\ fn_result[1].theta = None
    /\ fn_result' = Some([fn_result[1] EXCEPT
                             !.theta = Some(q_to_theta_value(fn_result[1].q,
                                                fn_args[1].energy))])
    /\ UNCHANGED <<fn_args, ImageVars, ProfileVars, RebinVars, RunVars,
                   ScanVars, DataVars, RegionVars>>

NextConvert ==
    \/ DoThetaToQ
    \/ DoQToTheta

SpecConvert == InitConvert /\ [][NextConvert]_vars

------------------------------------------------------------------------------
(* SpecHot: the hot-pixel repair of one 3 x 3 array.                       *)

\* The most pixels of the array that are at or above hot_pixel_max.
MaxHot == 2

HotPixelMaxima == {200}

QuietValues == {0, 5}

HotValues == {200, 400}

HotArrays ==
    {Mat(3, 3, cells) : cells \in
        {c \in [1..9 -> QuietValues \cup HotValues] :
            Cardinality({k \in 1..9 : c[k] \in HotValues}) <= MaxHot}}

InitHot ==
    /\ \E array \in HotArrays, hot_pixel_max \in HotPixelMaxima :
          fn_args = Some([array |-> array, hot_pixel_max |-> hot_pixel_max])
    /\ fn_result = None
    /\ IdleImage
    /\ IdleProfile
    /\ IdleRebin
    /\ IdleRun
    /\ IdleScan
    /\ IdleData
    /\ IdleRegion

\* array = _average_out_hot(array, hot_pixel_max) in Image.__init__
DoAverageOutHot ==
    /\ fn_args # None
    /\ fn_result = None
    /\ fn_result' = Some(average_out_hot(fn_args[1].array,
                                         fn_args[1].hot_pixel_max))
    /\ UNCHANGED <<fn_args, ImageVars, ProfileVars, RebinVars, RunVars,
                   ScanVars, DataVars, RegionVars>>

NextHot == DoAverageOutHot

SpecHot == InitHot /\ [][NextHot]_vars

------------------------------------------------------------------------------
(* Helpers of the properties.                                              *)

Last(s) == s[Len(s)]

RECURSIVE SetSum(_, _)
\* The sum of the integer matrix m over the set of cells.
SetSum(m, cells) ==
    IF cells = {} THEN 0
    ELSE LET c == CHOOSE x \in cells : TRUE
         IN  At(m, c[1], c[2]) + SetSum(m, cells \ {c})

\* The cells of m that the half-open rectangle of region covers.
CellsOf(m, region) ==
    { c \in (1..m.nr) \X (1..m.nc) :
        /\ region.x_start < c[1] /\ c[1] <= region.x_end
        /\ region.y_start < c[2] /\ c[2] <= region.y_end }

RECURSIVE RegionsCount(_, _)
\* The counts of m summed region by region.
RegionsCount(m, regions) ==
    IF regions = <<>> THEN 0
    ELSE SetSum(m, CellsOf(m, Head(regions))) + RegionsCount(m, Tail(regions))

RECURSIVE RegionsPixels(_)
RegionsPixels(regions) ==
    IF regions = <<>> THEN 0
    ELSE (Head(regions).x_end - Head(regions).x_start)
           * (Head(regions).y_end - Head(regions).y_start)
         + RegionsPixels(Tail(regions))

BkgCalls(log) == SelectSeq(log, LAMBDA e : e.op = "bkg")

RECURSIVE TotalBkg(_)
\* The sum of the backgrounds the calls of log returned.
TotalBkg(log) ==
    IF log = <<>> THEN RInt(0)
    ELSE RAdd(IF Head(log).op = "bkg" THEN Head(log).info.bkg ELSE RInt(0),
              TotalBkg(Tail(log)))

\* m is the part of big that the half-open rectangle of region covers.
IsSubRectangle(m, big, region) ==
    /\ m.nr = Cardinality({i \in 1..big.nr :
                  region.x_start < i /\ i <= region.x_end})
    /\ m.nc = Cardinality({j \in 1..big.nc :
                  region.y_start < j /\ j <= region.y_end})
    /\ \A i \in 1..m.nr, j \in 1..m.nc :
          At(m, i, j) = At(big, region.x_start + i, region.y_start + j)

------------------------------------------------------------------------------
(* Properties of SpecImage.                                                *)

\* C4: right after background_subtraction with roi_subtraction over regions
\* R1..Rk, with S the counts of the construction-time array_original summed
\* over the regions and N the sum of the regions' (x_end - x_start) *
\* (y_end - y_start): bkg = S/N, bkg_e^2 = S/N^2 (1/N^2 when S = 0), every
\* pixel of array is its value before the call minus bkg (negative results
\* kept), every array_e^2 is its value before the call plus bkg_e^2; S does
\* not depend on earlier subtractions.
C4_RoiSubtraction ==
    (image_log # <<>> /\ Last(image_log).op = "bkg") =>
        LET e == Last(image_log)
            S == RegionsCount(image_first, e.regions)
            N == RegionsPixels(e.regions)
        IN  /\ image.bkg.n * N = S * image.bkg.d
            /\ image.bkg_e2.n * N * N = (IF S = 0 THEN 1 ELSE S) * image.bkg_e2.d
            /\ e.info = [bkg |-> image.bkg, bkg_e2 |-> image.bkg_e2]
            /\ shape(image.array) = shape(e.before.array)
            /\ shape(image.array_e2) = shape(e.before.array_e2)
            /\ \A k \in 1..Len(image.array.v) :
                  RAdd(image.array.v[k], image.bkg) = e.before.array.v[k]
            /\ \A k \in 1..Len(image.array_e2.v) :
                  RSub(image.array_e2.v[k], image.bkg_e2) = e.before.array_e2.v[k]

\* A second subtraction has just run, its background is not 0 and it left a
\* negative pixel.
C4_Witness ==
    /\ Len(BkgCalls(image_log)) >= 2
    /\ Last(image_log).op = "bkg"
    /\ image.bkg.n > 0
    /\ \E k \in 1..Len(image.array.v) : image.array.v[k].n < 0

\* C7 as stated: array, array_e and array_original always have one shape.
C7_ShapesAllEqual ==
    /\ shape(image.array) = shape(image.array_e2)
    /\ shape(image.array) = shape(image.array_original)

\* C7 amended: array and array_e always have one shape, and right after
\* crop(region) each is the part of its value before the call inside
\* [x_start, x_end) x [y_start, y_end); array_original keeps the shape it
\* was constructed with.
C7_ShapesArrayAndError ==
    /\ shape(image.array) = shape(image.array_e2)
    /\ shape(image.array_original) = shape(image_first)
    /\ (image_log # <<>> /\ Last(image_log).op = "crop") =>
          LET e == Last(image_log)
          IN  /\ IsSubRectangle(image.array, e.before.array, e.region)
              /\ IsSubRectangle(image.array_e2, e.before.array_e2, e.region)

\* A crop has just cut the image to a smaller, non-empty rectangle.
C7_Witness ==
    /\ image_log # <<>>
    /\ Last(image_log).op = "crop"
    /\ Len(image.array.v) > 0
    /\ Len(image.array.v) < Len(Last(image_log).before.array.v)
    /\ shape(image.array) # shape(image.array_original)

\* C8: array_original is its construction value after any sequence of crop
\* and background_subtraction calls.
C8_OriginalNeverChanges == image.array_original = image_first

\* A crop and a background subtraction have run and array differs from
\* array_original in shape and in value.
C8_Witness ==
    /\ \E i \in 1..Len(image_log) : image_log[i].op = "crop"
    /\ \E i \in 1..Len(image_log) :
          image_log[i].op = "bkg" /\ image_log[i].info.bkg.n # 0
    /\ Len(image.array.v) > 0
    /\ Len(image.array.v) < Len(image.array_original.v)

\* C9 as stated: array is its pre-subtraction value minus bkg, bkg being the
\* total subtracted by all calls so far.
C9_BkgIsTotal ==
    /\ image.bkg = TotalBkg(image_log)
    /\ shape(image.array) = shape(image_raw)
    /\ \A k \in 1..Len(image.array.v) :
          image.array.v[k] = RSub(image_raw.v[k], image.bkg)

\* C9 amended: array is its pre-subtraction value minus the sum of the
\* backgrounds of all calls so far, and bkg is the background of the latest
\* call alone (0 before the first).
C9_BkgIsLatest ==
    /\ image.bkg = (IF BkgCalls(image_log) = <<>> THEN RInt(0)
                     ELSE Last(BkgCalls(image_log)).info.bkg)
    /\ shape(image.array) = shape(image_raw)
    /\ \A k \in 1..Len(image.array.v) :
          RAdd(image.array.v[k], TotalBkg(image_log)) = image_raw.v[k]

\* Two subtractions with different non-zero backgrounds have run.
C9_Witness ==
    /\ Len(BkgCalls(image_log)) = 2
    /\ BkgCalls(image_log)[1].info.bkg.n # 0
    /\ BkgCalls(image_log)[2].info.bkg.n # 0
    /\ BkgCalls(image_log)[1].info.bkg # BkgCalls(image_log)[2].info.bkg
    /\ Len(image.array.v) > 0

RECURSIVE PixelsSummed(_, _)
\* The number of pixels of m that the slices of the regions hold.
PixelsSummed(m, regions) ==
    IF regions = <<>> THEN 0
    ELSE Cardinality(CellsOf(m, Head(regions))) + PixelsSummed(m, Tail(regions))

\* C29: in roi_subtraction the divisor N is the number of pixels actually
\* summed into S for every list of regions, including regions that reach
\* beyond array_original, so the background is the mean of the pixels that
\* were summed.
C29_DivisorIsPixelsSummed ==
    \A i \in 1..Len(image_log) :
        image_log[i].op = "bkg" =>
            LET e      == image_log[i]
                summed == PixelsSummed(image_first, e.regions)
            IN  /\ total_num_pixels(e.regions) = summed
                /\ e.info.bkg.n * summed
                      = RegionsCount(image_first, e.regions) * e.info.bkg.d

\* C29, as the code runs: the divisor is the sum of the regions' areas; it
\* is the number of pixels summed when every region lies inside
\* array_original, and larger when a region reaches beyond it.
C29_DivisorIsRegionArea ==
    \A i \in 1..Len(image_log) :
        image_log[i].op = "bkg" =>
            LET e      == image_log[i]
                summed == PixelsSummed(image_first, e.regions)
                inside == \A k \in 1..Len(e.regions) :
                             /\ e.regions[k].x_end <= image_first.nr
                             /\ e.regions[k].y_end <= image_first.nc
            IN  /\ total_num_pixels(e.regions) = RegionsPixels(e.regions)
                /\ inside => total_num_pixels(e.regions) = summed
                /\ ~inside => total_num_pixels(e.regions) > summed

------------------------------------------------------------------------------
(* Properties of Spec.                                                     *)

\* The axis a scan stores: theta when it was given theta, q otherwise.
StoredAxis(data) == IF data.theta_ # None THEN data.theta_[1] ELSE data.q_[1]

\* The members of s at the positions of K, in the order of s.
Kept(s, K) ==
    LET RECURSIVE Upto(_)
        Upto(i) == IF i = 0 THEN <<>>
                   ELSE IF i \in K THEN Append(Upto(i - 1), s[i])
                   ELSE Upto(i - 1)
    IN  Upto(Len(s))

\* The number of points of the scans before scan k.
RECURSIVE Offset(_, _)
Offset(scans, k) ==
    IF k = 1 THEN 0
    ELSE Offset(scans, k - 1) + Len(DataQ(scans[k - 1].data))

\* vector is piece(scan 1), piece(scan 2), ... laid end to end.
IsConcatenation(vector, scans, Piece(_)) ==
    /\ Len(vector) = Offset(scans, Len(scans) + 1)
    /\ \A k \in 1..Len(scans) :
          /\ Len(Piece(scans[k])) = Len(DataQ(scans[k].data))
          /\ \A i \in 1..Len(Piece(scans[k])) :
                vector[Offset(scans, k) + i] = Piece(scans[k])[i]

\* The sum of the rational matrix m, cell by cell.
CellSum(m) ==
    LET RECURSIVE Upto(_)
        Upto(k) == IF k = 0 THEN RInt(0) ELSE RAdd(Upto(k - 1), m.v[k])
    IN  Upto(Len(m.v))

ConcatenatingOps ==
    {"fromfilenames", "concatenate", "crop", "bkg_sub", "subsample_q",
     "footprint_correction", "transmission_normalisation",
     "qdcd_normalisation"}

\* C1: every scan, after any sequence of crop, bkg_sub, subsample_q,
\* footprint_correction, transmission_normalisation and qdcd_normalisation,
\* has as many images as intensities, as intensity errors and as stored axis
\* values.
C1_ScanLengthsAgree ==
    \A k \in 1..Len(profile.scans) :
        LET scan == profile.scans[k]
        IN  /\ Len(scan.images) = Len(scan.data.intensity)
            /\ Len(scan.data.intensity) = Len(scan.data.intensity_e2)
            /\ Len(scan.data.intensity_e2) = Len(StoredAxis(scan.data))

\* subsample_q has just removed some but not all points of a scan that was
\* cropped or background-subtracted before.
C1_Witness ==
    /\ prof_last.op = "subsample_q"
    /\ prof_last.before_op \in {"crop", "bkg_sub"}
    /\ \E k \in 1..Len(profile.scans) :
          /\ Len(profile.scans[k].images) > 0
          /\ Len(profile.scans[k].images)
                < Len(prof_last.before.scans[k].images)

\* C2: after concatenate, crop, bkg_sub, subsample_q, footprint_correction,
\* transmission_normalisation and qdcd_normalisation the profile's q,
\* intensity and intensity_e are the scans' vectors laid end to end in the
\* order of the scan list, each scan's own order kept, nothing sorted and
\* nothing dropped.
C2_ProfileIsConcatenation ==
    prof_last.op \in ConcatenatingOps =>
        /\ IsConcatenation(DataQ(profile.data), profile.scans,
                           LAMBDA scan : DataQ(scan.data))
        /\ IsConcatenation(profile.data.intensity, profile.scans,
                           LAMBDA scan : scan.data.intensity)
        /\ IsConcatenation(profile.data.intensity_e2, profile.scans,
                           LAMBDA scan : scan.data.intensity_e2)

\* An operation has just returned on two scans whose list order is not the
\* order of their q: the profile's q goes down at the seam and repeats a
\* value.
C2_Witness ==
    /\ prof_last.op \in ConcatenatingOps \ {"fromfilenames"}
    /\ Len(profile.scans) = 2
    /\ \E i \in 1..(Len(DataQ(profile.data)) - 1) :
          RLt(DataQ(profile.data)[i + 1], DataQ(profile.data)[i])
    /\ \E i, j \in 1..Len(DataQ(profile.data)) :
          i # j /\ DataQ(profile.data)[i] = DataQ(profile.data)[j]

\* What Scan.subsample_q(q_min, q_max) leaves of the scan before, when it
\* keeps the positions of K.
CutTo(after, before, K) ==
    /\ after.images = Kept(before.images, K)
    /\ StoredAxis(after.data) = Kept(StoredAxis(before.data), K)
    /\ DataQ(after.data) = Kept(DataQ(before.data), K)
    /\ after.data.intensity = Kept(before.data.intensity, K)
    /\ after.data.intensity_e2 = Kept(before.data.intensity_e2, K)

\* The scans of the latest Profile.subsample_q call that the scan_ID named.
Subsampled ==
    {k \in 1..Len(profile.scans) :
        IsSubstring(prof_last.args[1], profile.scans[k].metadata.filename)}

\* C3 as stated: subsample_q keeps exactly the points with
\* q_min < q < q_max, a point equal to a bound being removed.
C3_OpenInterval ==
    prof_last.op = "subsample_q" =>
        \A k \in Subsampled :
            LET q == DataQ(prof_last.before.scans[k].data)
            IN  CutTo(profile.scans[k], prof_last.before.scans[k],
                      {i \in 1..Len(q) : /\ RLt(prof_last.args[2], q[i])
                                         /\ RLt(q[i], prof_last.args[3])})

\* C3 amended: subsample_q removes exactly the points with q < q_min or
\* q > q_max and keeps every point with q_min <= q <= q_max, a point equal
\* to a bound included; images, axis, intensity and intensity_e are cut at
\* the same positions.
C3_ClosedInterval ==
    prof_last.op = "subsample_q" =>
        \A k \in Subsampled :
            LET q == DataQ(prof_last.before.scans[k].data)
            IN  CutTo(profile.scans[k], prof_last.before.scans[k],
                      {i \in 1..Len(q) : /\ RLe(prof_last.args[2], q[i])
                                         /\ RLe(q[i], prof_last.args[3])})

\* subsample_q has just removed a point of a scan and kept two points that
\* equal q_min and q_max.
C3_Witness ==
    /\ prof_last.op = "subsample_q"
    /\ \E k \in Subsampled :
          LET q == DataQ(profile.scans[k].data)
          IN  /\ Len(q) < Len(DataQ(prof_last.before.scans[k].data))
              /\ \E i \in 1..Len(q) : q[i] = prof_last.args[2]
              /\ \E i \in 1..Len(q) : q[i] = prof_last.args[3]

\* C6: on return from crop or bkg_sub every intensity[i] is the sum of
\* images[i].array and every intensity_e[i]^2 the sum of images[i].array_e^2,
\* whatever the two held before the call.
C6_IntensityIsImageSum ==
    prof_last.op \in {"crop", "bkg_sub"} =>
        \A k \in 1..Len(profile.scans) :
            LET scan == profile.scans[k]
            IN  /\ Len(scan.data.intensity) = Len(scan.images)
                /\ Len(scan.data.intensity_e2) = Len(scan.images)
                /\ \A i \in 1..Len(scan.images) :
                      /\ scan.data.intensity[i] = CellSum(scan.images[i].array)
                      /\ scan.data.intensity_e2[i]
                            = CellSum(scan.images[i].array_e2)

\* crop or bkg_sub has just run on scans whose intensities a footprint,
\* transmission or qDCD correction had set: the corrected values are gone.
C6_Witness ==
    /\ prof_last.op \in {"crop", "bkg_sub"}
    /\ prof_last.before_op \in {"footprint_correction",
                                "transmission_normalisation",
                                "qdcd_normalisation"}
    /\ \E k \in 1..Len(profile.scans) :
          /\ profile.scans[k].images # <<>>
          /\ profile.scans[k].data.intensity
                # prof_last.before.scans[k].data.intensity
          /\ profile.scans[k].data.intensity_e2
                # prof_last.before.scans[k].data.intensity_e2

\* The positions of q inside the closed interval [q_min, q_max].
Inside(q, q_min, q_max) ==
    {i \in 1..Len(q) : RLe(q_min, q[i]) /\ RLe(q[i], q_max)}

\* C12: Profile.subsample_q(identifier, q_min, q_max) subsamples exactly the
\* scans whose file name contains identifier, leaves every other scan as it
\* was, and on return the profile's q, intensity and intensity_e are the
\* concatenation of the scans' vectors after subsampling.
C12_OnlyNamedScans ==
    prof_last.op = "subsample_q" =>
        /\ Len(profile.scans) = Len(prof_last.before.scans)
        /\ \A k \in 1..Len(profile.scans) :
              LET was   == prof_last.before.scans[k]
                  named == \E a \in 0..Len(was.metadata.filename) :
                              \A c \in 1..Len(prof_last.args[1]) :
                                  /\ a + c <= Len(was.metadata.filename)
                                  /\ was.metadata.filename[a + c]
                                        = prof_last.args[1][c]
              IN  IF named
                  THEN CutTo(profile.scans[k], was,
                             Inside(DataQ(was.data), prof_last.args[2],
                                    prof_last.args[3]))
                  ELSE profile.scans[k] = was
        /\ IsConcatenation(DataQ(profile.data), profile.scans,
                           LAMBDA s : DataQ(s.data))
        /\ IsConcatenation(profile.data.intensity, profile.scans,
                           LAMBDA s : s.data.intensity)
        /\ IsConcatenation(profile.data.intensity_e2, profile.scans,
                           LAMBDA s : s.data.intensity_e2)

\* subsample_q has just cut the one scan its identifier names and left
\* alone a scan with points outside the bounds.
C12_Witness ==
    /\ prof_last.op = "subsample_q"
    /\ Len(profile.scans) = 2
    /\ \E k, l \in 1..2 :
          /\ k \in Subsampled
          /\ l \notin Subsampled
          /\ Len(profile.scans[k].images)
                < Len(prof_last.before.scans[k].images)
          /\ profile.scans[l] = prof_last.before.scans[l]
          /\ Inside(DataQ(profile.scans[l].data), prof_last.args[2],
                    prof_last.args[3])
                # 1..Len(DataQ(profile.scans[l].data))

\* The scans of the profile were all taken at the energy of the first.
OneEnergy ==
    \A k \in 1..Len(profile.scans) :
        profile.scans[k].metadata.probe_energy
            = profile.scans[1].metadata.probe_energy

\* C15: a Profile's energy is the energy of its first scan, and no Profile
\* exists whose scans were taken at different energies (building one fails).
C15_FirstEnergyAndOneEnergy ==
    /\ profile.data.energy = profile.scans[1].metadata.probe_energy
    /\ OneEnergy

\* C15, amended: a Profile's energy is the energy of its first scan,
\* whatever the energies of the others, and stays so through every operation.
C15_FirstEnergy ==
    profile.data.energy = profile.scans[1].metadata.probe_energy

\* A profile built from scans taken at 12.5 keV and at 10 keV has been
\* operated on.
C15_Witness ==
    /\ ~OneEnergy
    /\ prof_ops > 0
    /\ profile.data.energy = 125
    /\ profile.scans[Len(profile.scans)].data.energy = 100

\* The delegating operations of Profile, and concatenate itself.
Concatenating ==
    {"concatenate", "crop", "bkg_sub", "subsample_q", "footprint_correction",
     "transmission_normalisation", "qdcd_normalisation"}

\* The profile-level q, intensity and intensity_e.
Curve(p) == <<p.data.q_, p.data.intensity, p.data.intensity_e2>>

\* The profile-level curve is the concatenation of the scans.
Unrebinned(p) ==
    LET c == concatenate(p.scans)
    IN  Curve(p) = <<Some(c.q), c.intensity, c.intensity_e2>>

\* C27: Profile.rebin changes only the profile-level q, intensity and
\* intensity_e and leaves every scan unchanged; a later concatenate or
\* delegating operation replaces the rebinned curve with the un-rebinned
\* concatenation of the scans.
C27_RebinIsUndoneByConcatenate ==
    /\ prof_last.op = "rebin" =>
          /\ profile.scans = prof_last.before.scans
          /\ profile.data.energy = prof_last.before.data.energy
          /\ profile.data.theta_ = prof_last.before.data.theta_
    /\ (prof_last.op \in Concatenating /\ prof_last.before_op = "rebin") =>
          Unrebinned(profile)

\* A rebin has changed the curve of a profile, and the crop after it has put
\* the concatenation of the cropped scans in the place of the rebinned curve.
C27_Witness ==
    /\ prof_last.op = "crop"
    /\ prof_last.before_op = "rebin"
    /\ ~Unrebinned(prof_last.before)
    /\ Curve(profile) # Curve(prof_last.before)
    /\ Unrebinned(profile)

------------------------------------------------------------------------------
(* Properties of SpecRebin.                                                *)

\* The grid a call was given, empty if it was given none.
GivenGrid == IF rebin_args.new_q = None THEN <<>> ELSE rebin_args.new_q[1]

\* rebin has returned from a call that was given a grid.
Binned == rebin_result # None /\ rebin_args.new_q # None

\* The points of the call that lie in bin i, [new_q[i], new_q[i + 1]).
InBin(i) ==
    {j \in 1..Len(rebin_args.q) :
        /\ RLe(GivenGrid[i], rebin_args.q[j])
        /\ RLt(rebin_args.q[j], GivenGrid[i + 1])}

\* The sum of x[j] / sigma_j^2 over the points j of K.
RECURSIVE WeightedSum(_, _)
WeightedSum(x, K) ==
    IF K = {} THEN RInt(0)
    ELSE LET j == CHOOSE j \in K : TRUE
         IN  RAdd(RMul(x[j], Rat(rebin_args.R_e2[j].d, rebin_args.R_e2[j].n)),
                  WeightedSum(x, K \ {j}))

SumOfWeights(K) == WeightedSum([j \in 1..Len(rebin_args.q) |-> RInt(1)], K)

\* The bins that hold a point and whose weighted mean intensity is not 0.
ReturnedBins ==
    {i \in 1..(Len(GivenGrid) - 1) :
        InBin(i) # {} /\ WeightedSum(rebin_args.R, InBin(i)) # RInt(0)}

\* The r-th returned bin, in bin order.
ReturnedBin(r) ==
    CHOOSE i \in ReturnedBins :
        Cardinality({g \in ReturnedBins : g < i}) = r - 1

\* C5: rebin returns, in bin order, one point for each bin of the half-open
\* grid that holds a point and whose weighted mean intensity is not 0: with
\* w_j = 1/sigma_j^2 and W their sum over the bin, I' = sum(w_j I_j)/W,
\* q' = sum(w_j q_j)/W, sigma'^2 = 1/W; empty bins and bins with I' = 0 give
\* no point; two points of equal sigma in a bin give their arithmetic mean
\* with sigma'^2 = sigma^2/2.
C5_RebinIsWeightedMean ==
    Binned =>
        LET out == rebin_result[1]
        IN  /\ Len(out.q) = Cardinality(ReturnedBins)
            /\ Len(out.intensity) = Cardinality(ReturnedBins)
            /\ Len(out.intensity_e2) = Cardinality(ReturnedBins)
            /\ \A r \in 1..Len(out.q) :
                  LET K == InBin(ReturnedBin(r))
                      W == SumOfWeights(K)
                  IN  /\ RMul(out.intensity[r], W) = WeightedSum(rebin_args.R, K)
                      /\ RMul(out.q[r], W) = WeightedSum(rebin_args.q, K)
                      /\ RMul(out.intensity_e2[r], W) = RInt(1)
                      /\ \A a, b \in K :
                            (/\ K = {a, b}
                             /\ a # b
                             /\ rebin_args.R_e2[a] = rebin_args.R_e2[b]) =>
                               /\ RAdd(out.intensity[r], out.intensity[r])
                                     = RAdd(rebin_args.R[a], rebin_args.R[b])
                               /\ RAdd(out.q[r], out.q[r])
                                     = RAdd(rebin_args.q[a], rebin_args.q[b])
                               /\ RAdd(out.intensity_e2[r], out.intensity_e2[r])
                                     = rebin_args.R_e2[a]

\* C13: for an increasing grid of length N and positive uncertainties, the
\* q, intensity and intensity_e that rebin returns have one common length,
\* at most N - 1, and the returned q is strictly increasing.
C13_RebinShortAndSorted ==
    Binned =>
        LET out == rebin_result[1]
        IN  /\ Len(out.q) = Len(out.intensity)
            /\ Len(out.q) = Len(out.intensity_e2)
            /\ Len(out.q) <= Len(GivenGrid) - 1
            /\ \A r \in 1..(Len(out.q) - 1) :
                  out.q[r].n * out.q[r + 1].d < out.q[r + 1].n * out.q[r].d

\* rebin has returned a point for every bin of the grid, from a curve whose
\* q is not sorted and has a point on an inner edge of the grid.
C13_Witness ==
    /\ Binned
    /\ Len(rebin_result[1].q) = Len(GivenGrid) - 1
    /\ \E j \in 1..(Len(rebin_args.q) - 1) :
          RLt(rebin_args.q[j + 1], rebin_args.q[j])
    /\ \E j \in 1..Len(rebin_args.q) : rebin_args.q[j] = GivenGrid[2]

\* rebin has returned a point for a bin with two points of equal sigma and
\* different intensity, and none for a bin whose two points average to 0
\* nor for an empty bin.
C5_Witness ==
    /\ Binned
    /\ \E i \in 1..(Len(GivenGrid) - 1) : InBin(i) = {}
    /\ \E i \in 1..(Len(GivenGrid) - 1) :
          InBin(i) # {} /\ i \notin ReturnedBins
    /\ \E i \in ReturnedBins :
          \E a, b \in InBin(i) :
              /\ InBin(i) = {a, b}
              /\ rebin_args.R[a] # rebin_args.R[b]
              /\ rebin_args.R_e2[a] = rebin_args.R_e2[b]
    /\ Len(rebin_result[1].q) < Len(GivenGrid) - 1

\* rebin has returned from a call that was given no grid.
BinnedOnDefault ==
    /\ rebin_result # None
    /\ rebin_args.new_q = None
    /\ ~rebin_result[1].raised

\* The bins of the grid a call used that hold the point j of the call.
BinsHolding(j) ==
    LET new_q == rebin_result[1].new_q
    IN  {i \in 1..(Len(new_q) - 1) :
            /\ RLe(new_q[i], rebin_args.q[j])
            /\ RLt(rebin_args.q[j], new_q[i + 1])}

\* C14: when rebin is called without a grid, linear or log, the grid it
\* generates starts at min(q) and ends above max(q), and every point of the
\* call lies in exactly one bin, whatever the order of q.
C14_DefaultGridCoversAll ==
    BinnedOnDefault =>
        LET new_q == rebin_result[1].new_q
        IN  /\ new_q[1] = RMinOf(rebin_args.q)
            /\ RLt(RMaxOf(rebin_args.q), new_q[Len(new_q)])
            /\ \A j \in 1..Len(rebin_args.q) : Cardinality(BinsHolding(j)) = 1

\* The same for the linear grid alone.
C14_LinearGridCoversAll ==
    (BinnedOnDefault /\ rebin_args.rebin_as = "linear") =>
        LET new_q == rebin_result[1].new_q
        IN  /\ new_q[1] = RMinOf(rebin_args.q)
            /\ RLt(RMaxOf(rebin_args.q), new_q[Len(new_q)])
            /\ \A j \in 1..Len(rebin_args.q) : Cardinality(BinsHolding(j)) = 1

------------------------------------------------------------------------------
(* Properties of SpecRunner.                                               *)

\* The place of a Profile method in the canonical reduction order.
StageRank(call) ==
    CASE call = "crop" -> 1
      [] call = "bkg_sub" -> 2
      [] call = "qdcd_normalisation" -> 3
      [] call = "footprint_correction" -> 4
      [] call = "transmission_normalisation" -> 5
      [] call = "concatenate" -> 6
      [] call = "subsample_q" -> 7
      [] call = "rebin" -> 8

Invoked(call) == \E a \in 1..Len(run_calls) : run_calls[a] = call

\* The calls made so far follow the canonical order, no stage comes twice
\* (the subsampling stage is its one call for each requested dict), and the
\* optional stages come only if asked for.
StagesInOrder ==
    /\ \A a, b \in 1..Len(run_calls) :
          a < b => \/ StageRank(run_calls[a]) < StageRank(run_calls[b])
                   \/ run_calls[a] = "subsample_q" /\ run_calls[b] = "subsample_q"
    /\ Invoked("qdcd_normalisation") => run_cfg.dcd_normalisation # None
    /\ Invoked("subsample_q") => run_cfg.q_subsample_dicts # None
    /\ Invoked("rebin") => run_cfg.rebin # None
    /\ Cardinality({a \in 1..Len(run_calls) : run_calls[a] = "subsample_q"})
          <= (IF run_cfg.q_subsample_dicts = None THEN 0
              ELSE Len(run_cfg.q_subsample_dicts[1]))

\* A completed run has been through every stage that is not optional and
\* through every optional stage that was asked for.
StagesComplete ==
    run_pc = "done" =>
        /\ Invoked("crop")
        /\ Invoked("footprint_correction")
        /\ Invoked("transmission_normalisation")
        /\ Invoked("concatenate")
        /\ run_cfg.dcd_normalisation # None => Invoked("qdcd_normalisation")
        /\ run_cfg.rebin # None => Invoked("rebin")
        /\ run_cfg.q_subsample_dicts # None =>
              Cardinality({a \in 1..Len(run_calls) : run_calls[a] = "subsample_q"})
                 = Len(run_cfg.q_subsample_dicts[1])

\* The images of the run, each named by its scan and its place in the scan.
ImagesOfRun ==
    UNION {{<<k, i>> : i \in 1..Len(run_count[k])} : k \in 1..Len(run_count)}

C20_DefaultBackground ==
    run_cfg.background.method = "absent" =>
        /\ run_pc = "raised" => run_cfg.directory_ends_with_sep
        /\ run_pc \in {"dcd", "footprint", "transmission", "concatenate",
                       "subsample", "rebin", "write", "done"} =>
              /\ Invoked("bkg_sub")
              /\ \A c \in ImagesOfRun : run_count[c[1]][c[2]].bkgs = 1

\* What the run does without a background section: it subtracts nothing and
\* raises at the background stage.
C20_DefaultRaises ==
    (run_cfg.background.method = "absent"
       /\ run_pc \notin {"start", "crop", "bkg"}) =>
        /\ run_pc = "raised"
        /\ ~Invoked("bkg_sub")
        /\ \A c \in ImagesOfRun : run_count[c[1]][c[2]].bkgs = 0

\* The run has parsed its files.
Loaded == run_refl # None

\* C21: a recipe whose background method is 'none' passes validation, and
\* the run skips background subtraction: it goes on to the remaining stages
\* and no image has a background subtracted.
C21_NoneSkipsBackground ==
    run_cfg.background.method = "none" =>
        /\ ~(run_cfg.shape = [lacking |-> {}, unknown |-> {}]
             /\ check_config_schema_raises(run_cfg))
        /\ run_pc = "raised" =>
              \/ run_cfg.directory_ends_with_sep
              \/ check_config_schema_raises(run_cfg)
        /\ ~Invoked("bkg_sub")
        /\ \A c \in ImagesOfRun : run_count[c[1]][c[2]].bkgs = 0

\* What the two spellings do: 'none' passes validation and ends the run with
\* KeyError before a file is parsed; 'None' is skipped as C21 describes.
C21_NoneRaisesKeyError ==
    /\ (run_cfg.background.method = "none"
          /\ ~run_cfg.directory_ends_with_sep
          /\ ~check_config_schema_raises(run_cfg)
          /\ run_pc # "start") =>
            run_raised = Some("KeyError") /\ ~Loaded
    /\ run_cfg.background.method = "None" =>
          /\ ~Invoked("bkg_sub")
          /\ \A c \in ImagesOfRun : run_count[c[1]][c[2]].bkgs = 0
          /\ run_raised \notin {Some("KeyError"), Some("TypeError")}

\* The recipe is unfit: a top-level key outside the recognised set, or
\* instrument, setup or visit missing.
Unfit == run_cfg.shape.lacking # {} \/ run_cfg.shape.unknown # {}

\* C22: a recipe is validated before any of it is applied: an unfit recipe
\* is rejected with a schema error and the run loads no data and calls
\* nothing; a recipe that validates is not rejected by the schema.
C22_ValidatedFirst ==
    /\ (Unfit /\ run_pc # "start") =>
          /\ run_raised = Some("SchemaError")
          /\ ~Loaded
          /\ run_calls = <<>>
    /\ (~Unfit /\ run_pc # "start") => run_raised # Some("SchemaError")

\* The same for a directory argument that lacks the trailing separator,
\* the one for which Foreperson is built and the recipe is read.
C22_ValidatedFirstWhenRead ==
    ~run_cfg.directory_ends_with_sep =>
        /\ (Unfit /\ run_pc # "start") =>
              /\ run_raised = Some("SchemaError")
              /\ ~Loaded
              /\ run_calls = <<>>
        /\ (~Unfit /\ run_pc # "start") =>
              /\ run_raised # Some("SchemaError")
              /\ run_cfg.background.method \in function_map_keys => Loaded

\* C24: when no output filename is supplied, the reduced data file is named
\* XRR_<first_run>_<recipe_name><timestamp>.dat and is created inside the
\* directory <experiment_dir>/processing/.
C24_WrittenInProcessing ==
    (run_out # None /\ run_out[1].filename = None) =>
        /\ path_basename(run_out[1].path) = dat_filename(run_out[1].run_numbers)
        /\ path_dirname(run_out[1].path)
              = SubSeq(directory_path, 1, Len(directory_path) - 1)
                   \o <<"/", "processing">>

\* C24, as the code runs: with no filename supplied the file is written in
\* the experiment directory itself, its name being 'processing' followed by
\* the generated name.
C24_WrittenBesideProcessing ==
    (run_out # None /\ run_out[1].filename = None) =>
        /\ path_basename(run_out[1].path)
              = <<"processing">> \o dat_filename(run_out[1].run_numbers)
        /\ path_dirname(run_out[1].path)
              = SubSeq(directory_path, 1, Len(directory_path) - 1)

\* C28: i07reduce builds its Foreperson and goes on to parse the input
\* files for every directory argument, whether or not the directory ends
\* with the path separator: a run with a fit recipe has its files parsed
\* and no run ends for want of the_boss.
C28_EitherDirectoryForm ==
    run_pc # "start" =>
        /\ run_raised # Some("NameError")
        /\ ~setup_raises(run_cfg) => Loaded

\* C28, as the code runs: the files are parsed exactly when the recipe is
\* fit and the directory lacks the trailing separator; with the separator
\* every run ends with NameError before anything is read.
C28_OnlyWithoutSeparator ==
    run_pc # "start" =>
        /\ Loaded <=> (~run_cfg.directory_ends_with_sep /\ ~setup_raises(run_cfg))
        /\ run_cfg.directory_ends_with_sep <=> run_raised = Some("NameError")

------------------------------------------------------------------------------
(* Properties of SpecRemove.                                               *)

\* The 1-based positions of a vector of length n that no index of I names,
\* for I a list of 0-based indices.
Surviving(n, I) == {p \in 1..n : \A k \in 1..Len(I) : I[k] # p - 1}

\* I is a list of distinct indices of a vector of length n.
DistinctInRange(n, I) ==
    /\ \A k \in 1..Len(I) : 0 <= I[k] /\ I[k] < n
    /\ \A k, l \in 1..Len(I) : k # l => I[k] # I[l]

\* C11: remove_data_points(I), for I a list of distinct in-range indices,
\* deletes exactly the positions of I from intensity, intensity_e, the stored
\* axis and the images, keeps the rest in order and shortens each by |I|;
\* removing [1, 2, 4] makes new index 1 the old index 3 and new index 2 the
\* old index 5.
C11_RemoveDataPoints ==
    (scan2d_call # None
       /\ scan2d_call[1].op = "remove_data_points"
       /\ Len(scan2d_call[1].before.images)
             = Len(scan2d_call[1].before.data.intensity)
       /\ DistinctInRange(Len(scan2d_call[1].before.images),
                          scan2d_call[1].indices)) =>
        LET before == scan2d_call[1].before
            I      == scan2d_call[1].indices
            K      == Surviving(Len(before.images), I)
        IN  /\ ~scan2d_call[1].raised
            /\ CutTo(scan2d[1], before, K)
            /\ Len(scan2d[1].images) = Len(before.images) - Len(I)
            /\ Len(scan2d[1].data.intensity) = Len(before.data.intensity) - Len(I)
            /\ Len(scan2d[1].data.intensity_e2) = Len(before.data.intensity_e2) - Len(I)
            /\ Len(StoredAxis(scan2d[1].data)) = Len(StoredAxis(before.data)) - Len(I)
            /\ (I = <<1, 2, 4>>) =>
                  /\ scan2d[1].images[2] = before.images[4]
                  /\ scan2d[1].images[3] = before.images[6]
                  /\ scan2d[1].data.intensity[2] = before.data.intensity[4]
                  /\ scan2d[1].data.intensity[3] = before.data.intensity[6]
                  /\ StoredAxis(scan2d[1].data)[2] = StoredAxis(before.data)[4]
                  /\ StoredAxis(scan2d[1].data)[3] = StoredAxis(before.data)[6]

\* remove_data_points has removed three points, named out of order, from
\* the scan of six.
C11_Witness ==
    /\ scan2d_call # None
    /\ scan2d_call[1].op = "remove_data_points"
    /\ scan2d_call[1].indices = <<4, 1, 2>>
    /\ ~scan2d_call[1].raised
    /\ Len(scan2d[1].images) = 3
    /\ Len(scan2d_call[1].before.images) = 6

\* The 1-based positions of a vector of length n that no index of I names,
\* a negative index counting from the end.
SurvivingAny(n, I) ==
    {p \in 1..n : \A k \in 1..Len(I) : Position(I[k], n) # p - 1}

\* remove_data_points was called on a scan with as many images as points,
\* with indices that all name a position of it.
RemovedInRange ==
    /\ scan2d_call # None
    /\ scan2d_call[1].op = "remove_data_points"
    /\ Len(scan2d_call[1].before.images)
          = Len(scan2d_call[1].before.data.intensity)
    /\ ~np_delete_raises(scan2d_call[1].before.data.intensity,
                         scan2d_call[1].indices)

\* C30: remove_data_points(indices) removes the same positions from the
\* images as from intensity, intensity_e and the axis for every index list,
\* also one with a repeated index or with a negative index naming the
\* position a positive one names, so images and vectors keep equal lengths
\* and stay aligned.
C30_ImagesFollowVectors ==
    RemovedInRange =>
        LET before == scan2d_call[1].before
            K      == SurvivingAny(Len(before.images), scan2d_call[1].indices)
        IN  /\ ~scan2d_call[1].raised
            /\ CutTo(scan2d[1], before, K)
            /\ Len(scan2d[1].images) = Len(scan2d[1].data.intensity)

\* C30, as the code runs: the vectors lose every position named, once; the
\* images lose one entry for each member of the list, or a del raises; the
\* two agree when no position is named twice, and otherwise the del raises
\* or the scan is left with fewer images than points.
C30_OneImagePerIndex ==
    RemovedInRange =>
        LET before == scan2d_call[1].before
            I      == scan2d_call[1].indices
            n      == Len(before.images)
            K      == SurvivingAny(n, I)
            twice  == \E k, l \in 1..Len(I) :
                         k # l /\ Position(I[k], n) = Position(I[l], n)
        IN  /\ Len(scan2d[1].data.intensity) = Cardinality(K)
            /\ ~scan2d_call[1].raised => Len(scan2d[1].images) = n - Len(I)
            /\ ~twice => (~scan2d_call[1].raised /\ CutTo(scan2d[1], before, K))
            /\ twice => \/ scan2d_call[1].raised
                        \/ Len(scan2d[1].images) # Len(scan2d[1].data.intensity)

\* The parser has returned a scan and nothing was removed from it yet.
Parsed == scan2d # None /\ scan2d_file # None /\ scan2d_call = None

\* C16: constructing a Scan fails when the image stack and the axis differ in
\* length, so every Scan that exists has as many images as axis points.
C16_StackAsLongAsAxis ==
    Parsed => Len(scan2d[1].images) = Len(StoredAxis(scan2d[1].data))

\* C16, amended: constructing a Scan never fails on the lengths; the Scan
\* holds every frame and every axis point of the file, so its lengths agree
\* exactly when the file's do.
C16_StackAndAxisAsInFile ==
    Parsed =>
        /\ Len(scan2d[1].images) = Len(scan2d_file[1].frames)
        /\ \A i \in 1..Len(scan2d_file[1].frames) :
              scan2d[1].images[i].array_original
                  = Transpose(scan2d_file[1].frames[i])
        /\ StoredAxis(scan2d[1].data)
              = [i \in 1..Len(scan2d_file[1].axis) |->
                    RInt(scan2d_file[1].axis[i])]

\* The parser has returned a scan of two points and three images.
C16_Witness ==
    /\ Parsed
    /\ Len(scan2d[1].images) = 3
    /\ Len(StoredAxis(scan2d[1].data)) = 2

\* C17: in every Data that was constructed and then assigned q or theta or
\* had points removed, exactly one of _theta and _q is stored and the other
\* is derived from it and the energy; no Data holds neither, constructing
\* one raises.
C17_OneStorageForm ==
    /\ scan2d # None =>
          LET data == scan2d[1].data
          IN  /\ (data.theta_ = None) # (data.q_ = None)
              /\ data.theta_ # None =>
                    DataQ(data) = theta_to_q(data.theta_[1], data.energy)
    /\ (scan2d_call # None /\ scan2d_call[1].op = "Data") =>
          /\ scan2d = None
          /\ scan2d_call[1].raised
          /\ Data_raises(scan2d_call[1].args.theta, scan2d_call[1].args.q)

\* The same for the scans the parser returned, before any assignment.
C17_OneStorageFormWhenParsed ==
    (scan2d # None /\ scan2d_file # None /\ Assigned = 0) =>
        (scan2d[1].data.theta_ = None) # (scan2d[1].data.q_ = None)

------------------------------------------------------------------------------
(* Properties of SpecData.                                                 *)

\* R and R_e of a Data with intensities have been read.
ReflectivityRead == data_read # None /\ data_obj.intensity # <<>>

\* v is a number: neither inf, -inf nor nan.
Finite(v) == v.d # 0

\* C18: for a Data with intensities, reflectivity[i] is intensity[i] over the
\* largest intensity, reflectivity_e[i] is intensity_e[i] over the largest
\* intensity, and the largest reflectivity is exactly 1, also when
\* intensities are zero or negative.
C18_ReflectivityMaxIsOne ==
    ReflectivityRead =>
        LET out == data_read[1]
            m   == np_amax(data_obj.intensity)
        IN  /\ ~out.raised
            /\ \A i \in 1..Len(out.R) :
                  /\ Finite(out.R[i])
                  /\ Finite(out.R_e2[i])
                  /\ RMul(out.R[i], m) = data_obj.intensity[i]
                  /\ RMul(out.R_e2[i], RMul(m, m)) = data_obj.intensity_e2[i]
                  /\ RLe(out.R[i], RInt(1))
            /\ \E i \in 1..Len(out.R) : out.R[i] = RInt(1)

\* The same for a Data whose largest intensity is positive.
C18_MaxIsOneForPositiveMax ==
    (ReflectivityRead /\ RLt(RInt(0), np_amax(data_obj.intensity))) =>
        LET out == data_read[1]
            m   == np_amax(data_obj.intensity)
        IN  /\ ~out.raised
            /\ \A i \in 1..Len(out.R) :
                  /\ Finite(out.R[i])
                  /\ Finite(out.R_e2[i])
                  /\ RMul(out.R[i], m) = data_obj.intensity[i]
                  /\ RMul(out.R_e2[i], RMul(m, m)) = data_obj.intensity_e2[i]
                  /\ RLe(out.R[i], RInt(1))
            /\ \E i \in 1..Len(out.R) : out.R[i] = RInt(1)

------------------------------------------------------------------------------
(* Properties of SpecRegion.                                               *)

\* C19: every constructed Region has x_start <= x_end and y_start <= y_end,
\* the constructor having swapped a reversed pair (Region(2, 1, 4, 3) has
\* x from 1 to 2 and y from 3 to 4); x_length = x_end - x_start and
\* y_length = y_end - y_start are not negative, and num_pixels is their
\* product.
C19_RegionCanonical ==
    region_obj # None =>
        LET region == region_obj[1]
        IN  /\ region.x_start <= region.x_end
            /\ region.y_start <= region.y_end
            /\ region.x_start = Min(region_args.x_start, region_args.x_end)
            /\ region.x_end = Max(region_args.x_start, region_args.x_end)
            /\ region.y_start = Min(region_args.y_start, region_args.y_end)
            /\ region.y_end = Max(region_args.y_start, region_args.y_end)
            /\ x_length(region) = region.x_end - region.x_start
            /\ y_length(region) = region.y_end - region.y_start
            /\ x_length(region) >= 0
            /\ y_length(region) >= 0
            /\ num_pixels(region) = x_length(region) * y_length(region)

\* What the constructor does: it stores its four arguments as given.
C19_RegionAsGiven ==
    region_obj # None =>
        /\ region_obj[1] = region_args
        /\ x_length(region_obj[1]) = region_args.x_start - region_args.x_end
        /\ y_length(region_obj[1]) = region_args.y_start - region_args.y_end

------------------------------------------------------------------------------
(* Properties of SpecFind.                                                 *)

\* The candidate paths of the search, and those of them that are files.
Candidates ==
    candidate_paths(fn_args[1].filename,
        local_start_directories(fn_args[1].cwd,
                                fn_args[1].additional_search_paths))

CandidateFiles ==
    {Candidates[c] : c \in 1..Len(Candidates)} \cap fn_args[1].isfile

\* C23: a file present at its recorded path is used as is; for an absent one
\* the search uses a candidate only if exactly one candidate file is found
\* and raises FileNotFound when none or more than one is found.
C23_OnlyCandidate ==
    fn_result # None =>
        IF fn_args[1].filename \in fn_args[1].isfile
        THEN fn_result[1] = [raised |-> FALSE, path |-> fn_args[1].filename]
        ELSE IF Cardinality(CandidateFiles) = 1
        THEN /\ ~fn_result[1].raised
             /\ fn_result[1].path \in CandidateFiles
        ELSE fn_result[1].raised

\* C23, amended: a file present at its recorded path is used as is; for an
\* absent one the search uses the first candidate, in the order searched,
\* that is a file, however many there are, and raises only when none is.
C23_FirstCandidate ==
    fn_result # None =>
        IF fn_args[1].filename \in fn_args[1].isfile
        THEN fn_result[1] = [raised |-> FALSE, path |-> fn_args[1].filename]
        ELSE IF CandidateFiles = {}
        THEN fn_result[1].raised
        ELSE /\ ~fn_result[1].raised
             /\ \E c \in 1..Len(Candidates) :
                   /\ fn_result[1].path = Candidates[c]
                   /\ Candidates[c] \in fn_args[1].isfile
                   /\ \A b \in 1..(c - 1) : Candidates[b] \notin fn_args[1].isfile

\* The recorded path is absent, two different candidates are files, and the
\* search has returned one of them.
C23_Witness ==
    /\ fn_result # None
    /\ fn_args[1].filename \notin fn_args[1].isfile
    /\ Cardinality(CandidateFiles) >= 2
    /\ ~fn_result[1].raised
    /\ fn_result[1].path \in CandidateFiles

------------------------------------------------------------------------------
(* Properties of SpecConvert.  Angles are in millidegrees.                 *)

\* The angle that came back, less the angle converted.
RoundTripError ==
    RSub(fn_result[1].theta[1], fn_args[1].theta)

\* C25: converting theta to q and back at 12.5 keV returns the starting
\* angle, for any theta from 0.001 to 30 degrees; the angle that comes back
\* is here allowed to be a whole fiftieth of a degree off.
C25_RoundTrip ==
    (fn_result # None /\ fn_result[1].theta # None) =>
        /\ RLe(RoundTripError, RInt(20))
        /\ RLe(RInt(-20), RoundTripError)

\* C25, as the code runs: the angle that comes back is never above the one
\* converted, is within a hundredth of a degree of it up to 5 degrees, and
\* is more than a degree short of it from 28 degrees on.
C25_RoundTripFallsShort ==
    (fn_result # None /\ fn_result[1].theta # None) =>
        /\ RLe(RoundTripError, RInt(2))
        /\ RLe(fn_args[1].theta, RInt(5000)) => RLe(RInt(-10), RoundTripError)
        /\ RLe(RInt(28000), fn_args[1].theta) => RLe(RoundTripError, RInt(-1000))

------------------------------------------------------------------------------
(* Properties of SpecHot.                                                  *)

PixelsOf(array) == (1..array.nr) \X (1..array.nc)

\* The pixel is the only one of the array at or above hot_pixel_max.
OnlyHot(p) ==
    \A o \in PixelsOf(fn_args[1].array) :
        At(fn_args[1].array, o[1], o[2]) >= fn_args[1].hot_pixel_max => o = p

\* C26: a pixel is replaced exactly when its value is >= H and the mean of
\* its 3x3 neighbourhood without the pixel itself, clamped to the array at
\* edges and corners, is below a hundredth of its value; the replacement is
\* that mean rounded down, and every other pixel keeps its value.  Stated
\* for the arrays with one pixel at or above H.
C26_ClampedNeighbourMean ==
    fn_result # None =>
        \A p \in PixelsOf(fn_args[1].array) :
            LET array == fn_args[1].array
                value == At(array, p[1], p[2])
                rows  == clamped_span(p[1], array.nr)
                cols  == clamped_span(p[2], array.nc)
                count == Cardinality(rows) * Cardinality(cols) - 1
                total == SumAround(array, rows, cols, p[1], p[2])
            IN  OnlyHot(p) =>
                   At(fn_result[1], p[1], p[2])
                      = IF /\ value >= fn_args[1].hot_pixel_max
                           /\ total * 100 < value * count
                        THEN total \div count
                        ELSE value

\* C26, amended: a pixel is replaced exactly when its value is above H and
\* the sum of the other pixels of its window, divided by the size of the
\* whole window, is below a hundredth of its value; the window is the 3x3
\* block around the pixel cut at the last row and column, but the first
\* three rows (columns) for a pixel of the first row (column); the
\* replacement is that sum over the size less one, rounded down; every
\* pixel not above H keeps its value.  The replaced value is stated for a
\* pixel with no other pixel above H in its window.
C26_WindowMean ==
    fn_result # None =>
        \A p \in PixelsOf(fn_args[1].array) :
            LET array == fn_args[1].array
                value == At(array, p[1], p[2])
                rows  == IF p[1] = 1 THEN 1..3 ELSE (p[1] - 1)..Min(p[1] + 1, 3)
                cols  == IF p[2] = 1 THEN 1..3 ELSE (p[2] - 1)..Min(p[2] + 1, 3)
                size  == Cardinality(rows) * Cardinality(cols)
                total == SumAround(array, rows, cols, p[1], p[2])
                alone == \A o \in (rows \X cols) \ {p} :
                            At(array, o[1], o[2]) <= fn_args[1].hot_pixel_max
            IN  /\ value <= fn_args[1].hot_pixel_max =>
                      At(fn_result[1], p[1], p[2]) = value
                /\ (value > fn_args[1].hot_pixel_max /\ alone) =>
                      At(fn_result[1], p[1], p[2])
                         = IF total * 100 < value * size
                           THEN total \div (size - 1) ELSE value

\* The first pixel of the array is the only one above H and has been
\* replaced by the sum of the other eight pixels of the array over eight,
\* which is not the mean of its three neighbours rounded down.
C26_Witness ==
    /\ fn_result # None
    /\ OnlyHot(<<1, 1>>)
    /\ At(fn_args[1].array, 1, 1) > fn_args[1].hot_pixel_max
    /\ At(fn_result[1], 1, 1) = SumAround(fn_args[1].array, 1..3, 1..3, 1, 1) \div 8
    /\ At(fn_result[1], 1, 1)
          # SumAround(fn_args[1].array, 1..2, 1..2, 1, 1) \div 3

====
